---- MODULE Spec2Model ----
(***************************************************************************)
(* A model of three parts of go-mysql-server:                              *)
(*   - plan.LookupBuilder and plan.IndexedTableAccess (indexed access),    *)
(*   - sql.ColumnDefaultValue (column default expressions),                *)
(*   - planbuilder.buildFrom / buildJoin (FROM clause translation),        *)
(*   - the analyzer rules resolveOrderbyLiterals and pushdownSort,         *)
(*   - the in-memory database (memory.Database, memory.HistoryDatabase).   *)
(* Each part has its own variables and its own specification; a            *)
(* specification leaves the other parts' variables at their initial value. *)
(***************************************************************************)
EXTENDS Integers, Sequences, FiniteSets, TLC

VARIABLES lbs, heap, lkp, itaRes, held, wt, cdv, cdvRes, pb, wf, ana, mdb, mlog, mres

lbVars == <<lbs, heap, lkp, itaRes>>
heldVars == <<held, wt>>
cdvVars == <<cdv, cdvRes>>
pbVars == <<pb, wf>>
anaVars == <<ana>>
dbVars == <<mdb, mlog, mres>>
vars == <<lbVars, heldVars, cdvVars, pbVars, anaVars, dbVars>>

\* the variables of the other parts
notLB == <<heldVars, cdvVars, pbVars, anaVars, dbVars>>
notCDV == <<lbVars, heldVars, pbVars, anaVars, dbVars>>
notPB == <<lbVars, heldVars, cdvVars, anaVars, dbVars>>
notAna == <<lbVars, heldVars, cdvVars, pbVars, dbVars>>
notDB == <<lbVars, heldVars, cdvVars, pbVars, anaVars>>

(***************************************************************************)
(* Bounds                                                                  *)
(***************************************************************************)
\* largest number of key columns of an index
MaxArity == 2
\* largest number of LookupBuilder instances alive in one behaviour
MaxBuilders == 2
MaxTreeNodes == 2
\* largest number of children handed to a WithChildren call
MaxChildren == 2
\* largest number of entries of a FROM list
MaxFrom == 3
\* largest number of sort fields of a Sort node
MaxSortFields == 2
\* largest integer literal of an ORDER BY
MaxLiteral == 3
\* largest number of AddTableAsOf and AddTable calls on a HistoryDatabase
MaxAdds == 3
\* largest number of mutating calls on a Database
MaxCalls == 3

(***************************************************************************)
(* Values                                                                  *)
(***************************************************************************)
\* the SQL NULL (Go nil) key value
NULL == "NULL"
\* non-NULL key values; "0" is the zero value of the key type
Vals == {"0", "1"}
KeyVals == Vals \cup {NULL}

Keys(n) == [1..n -> KeyVals]
Masks(n) == [1..n -> BOOLEAN]

(***************************************************************************)
(* sql.Index: the part of the interface the lookup code consults.          *)
(* support says which range shapes CanSupport accepts:                     *)
(*   "any"  every range collection,                                        *)
(*   "none" no range collection,                                           *)
(*   "full" only ranges that restrict every key column (no "all" column).  *)
(***************************************************************************)
SupportKinds == {"any", "none", "full"}
Indexes == [unique : BOOLEAN, arity : 1..MaxArity, support : SupportKinds]
\* the nil sql.Index of a zero-valued IndexLookup / LookupBuilder
NoIndex == [unique |-> FALSE, arity |-> 0, support |-> "nil"]

IsUnique(idx) == idx.unique

\* number of key columns: len(index.ColumnExpressionTypes())
cets(idx) == idx.arity

(***************************************************************************)
(* Range column expressions (sql.RangeColumnExpr): a lower and an upper    *)
(* cut.  The constructors are those of the sql package.                    *)
(***************************************************************************)
Cut(c, k) == [cut |-> c, key |-> k]
RCE(lo, hi) == [LowerBound |-> lo, UpperBound |-> hi]

NullRangeColumnExpr == RCE(Cut("BelowNull", "-"), Cut("AboveNull", "-"))
NotNullRangeColumnExpr == RCE(Cut("AboveNull", "-"), Cut("AboveAll", "-"))
AllRangeColumnExpr == RCE(Cut("BelowNull", "-"), Cut("AboveAll", "-"))
ClosedRangeColumnExpr(lo, hi) == RCE(Cut("Below", lo), Cut("Above", hi))

\* index.CanSupport(ranges...) for the one range a lookup holds
CanSupport(idx, rang) ==
    CASE idx.support = "any" -> TRUE
      [] idx.support = "none" -> FALSE
      [] OTHER -> \A i \in 1..Len(rang) : rang[i] # AllRangeColumnExpr

(***************************************************************************)
(* sql.IndexLookup.  Ranges is []sql.Range{lb.rang}: it shares the         *)
(* builder's range slice, so it is held as the address of that slice in    *)
(* heap (0 for a lookup without ranges).                                   *)
(***************************************************************************)
IndexLookup(idx, addr, point, empty) ==
    [Index |-> idx, Ranges |-> addr, IsPointLookup |-> point, IsEmptyRange |-> empty]

\* the zero value sql.IndexLookup{}
EmptyLookup == IndexLookup(NoIndex, 0, FALSE, FALSE)

\* IndexLookup.IsEmpty: no index
IsEmpty(lookup) == lookup.Index = NoIndex

(***************************************************************************)
(* plan.LookupBuilder.  rang is the address in heap of the builder's range *)
(* slice (0 is the nil slice); keyLen is len(keyExprs), the key            *)
(* expressions themselves are not modelled: GetKey evaluates them to a key *)
(* of that length.                                                         *)
(***************************************************************************)
LookupBuilder(idx, n, mask, addr, ns, point, empty) ==
    [index |-> idx, keyLen |-> n, matchesNullMask |-> mask, rang |-> addr,
     nullSafe |-> ns, isPointLookup |-> point, emptyRange |-> empty]

\* NewLookupBuilder(index, keyExprs, matchesNullMask)
NewLookupBuilder(idx, n, mask) ==
    LookupBuilder(idx, n, mask, 0,
                  ~(\E i \in 1..Len(mask) : mask[i]),
                  TRUE, FALSE)

\* for key[i] == nil: emptyRange = true, isPointLookup = false
keyHasNil(key) == \E i \in 1..Len(key) : key[i] = NULL

\* the range column the first call builds for position i
initialColumn(lb, key, i) ==
    IF i <= Len(key)
    THEN IF lb.matchesNullMask[i]
         THEN IF key[i] = NULL THEN NullRangeColumnExpr ELSE NotNullRangeColumnExpr
         ELSE ClosedRangeColumnExpr(key[i], key[i])
    ELSE AllRangeColumnExpr

\* lb.initializeRange(key): the new range slice and the two scratch flags
initializeRange(lb, key) ==
    [rang |-> [i \in 1..cets(lb.index) |-> initialColumn(lb, key, i)],
     emptyRange |-> keyHasNil(key),
     isPointLookup |-> /\ Len(key) = cets(lb.index)
                       /\ ~keyHasNil(key)
                       /\ ~(Len(key) < cets(lb.index))]

\* a later call that only moves the bounds of the column it finds
updatedColumn_boundsOnly(lb, old, key, i) ==
    IF i <= Len(key)
    THEN IF lb.matchesNullMask[i] THEN old[i]
         ELSE [old[i] EXCEPT !.LowerBound = Cut("Below", key[i]),
                             !.UpperBound = Cut("Above", key[i])]
    ELSE old[i]

\* the range column a later call leaves at position i of the reused slice
updatedColumn(lb, old, key, i) ==
    IF i <= Len(key)
    THEN IF lb.matchesNullMask[i]
         THEN IF key[i] = NULL THEN NullRangeColumnExpr ELSE NotNullRangeColumnExpr
         ELSE [old[i] EXCEPT !.LowerBound = Cut("Below", key[i]),
                             !.UpperBound = Cut("Above", key[i])]
    ELSE old[i]

\* IsPointLookup of the returned lookup
pointLookupFlag(lb, point) == lb.nullSafe /\ point /\ IsUnique(lb.index)

\* IsEmptyRange of the returned lookup
emptyRangeFlag(empty) == empty

\* lb.GetLookup(key) on heap h: the builder afterwards, the heap afterwards
\* and the returned lookup
GetLookup(lb, h, key) ==
    IF lb.rang = 0
    THEN LET r == initializeRange(lb, key)
             a == Len(h) + 1
         IN [lb |-> [lb EXCEPT !.rang = a, !.emptyRange = r.emptyRange,
                               !.isPointLookup = r.isPointLookup],
             heap |-> Append(h, r.rang),
             lookup |-> IndexLookup(lb.index, a,
                                    pointLookupFlag(lb, r.isPointLookup),
                                    emptyRangeFlag(r.emptyRange))]
    ELSE LET empty == keyHasNil(key)
             point == (Len(key) = cets(lb.index)) /\ ~keyHasNil(key)
             old == h[lb.rang]
         IN [lb |-> [lb EXCEPT !.emptyRange = empty, !.isPointLookup = point],
             heap |-> [h EXCEPT ![lb.rang] =
                          [i \in 1..Len(old) |-> updatedColumn(lb, old, key, i)]],
             lookup |-> IndexLookup(lb.index, lb.rang,
                                    pointLookupFlag(lb, point),
                                    emptyRangeFlag(empty))]

\* lb.GetZeroKey(): keyExpr.Type().Zero() for every key expression
GetZeroKey(lb) == [i \in 1..lb.keyLen |-> "0"]

\* lb.WithExpressions(node, exprs...) for n = len(exprs), when the count matches
WithExpressions(lb, n) ==
    LookupBuilder(lb.index, n, lb.matchesNullMask, lb.rang, FALSE, FALSE, FALSE)

\* the error of lb.WithExpressions(node, exprs...)
WithExpressionsErr(lb, n) ==
    IF n # lb.keyLen THEN "ErrInvalidChildrenNumber" ELSE "nil"

(***************************************************************************)
(* State of the indexed-access part.                                       *)
(*   lbs    the LookupBuilder instances, by creation order                 *)
(*   heap   the range slices allocated by initializeRange                  *)
(*   lkp    the last call of GetLookup: builder, key and returned lookup,  *)
(*          and whether the builder had its range slice before the call    *)
(*   held   a lookup an earlier caller of GetLookup still holds             *)
(*   wt     the last call of the analyzer's withTable                       *)
(*   wf     the last call of a window-frame accessor of the plan builder    *)
(*   itaRes the outcome of the last constructor or method call on a node:  *)
(*          the operation, its error, the node it returned, the table and  *)
(*          the lookup it was given or built                               *)
(***************************************************************************)
NoLkp == [called |-> FALSE, lb |-> 0, key |-> <<>>, lookup |-> EmptyLookup,
          err |-> "nil", reused |-> FALSE]

\* tables: a wrapper is a sql.TableWrapper; ia says whether the table itself
\* is a sql.IndexAddressableTable, underIA whether Underlying() is one
Table(w, a, u) == [wrapper |-> w, ia |-> a, underIA |-> u]

Tables == {Table(FALSE, TRUE, FALSE), Table(FALSE, FALSE, FALSE),
           Table(TRUE, FALSE, TRUE), Table(TRUE, FALSE, FALSE),
           Table(TRUE, TRUE, FALSE)}

NoTable == [wrapper |-> FALSE, ia |-> FALSE, underIA |-> FALSE, none |-> TRUE]

\* an IndexedTableAccess: the table of its ResolvedTable, its builder (0 for
\* nil) and its static lookup
IndexedTableAccess(t, b, lookup) ==
    [isNode |-> TRUE, ResolvedTable |-> t, lb |-> b, lookup |-> lookup]

\* the nil *IndexedTableAccess
NoNode == [isNode |-> FALSE, ResolvedTable |-> NoTable, lb |-> 0, lookup |-> EmptyLookup]

\* the range slice a lookup holds, read from heap h
RangesOf(lookup, h) == IF lookup.Ranges = 0 THEN <<>> ELSE h[lookup.Ranges]

\* op: the call; err, node: what it returned; table: the table given; lookup,
\* ranges: the lookup whose ranges were put to CanSupport and those ranges as
\* they were at the call; n: the builder given, or the number of children
ItaRes(op, err, node, t, lookup, ranges, n) ==
    [op |-> op, err |-> err, node |-> node, table |-> t, lookup |-> lookup,
     ranges |-> ranges, n |-> n]

NoItaRes == ItaRes("none", "nil", NoNode, NoTable, EmptyLookup, <<>>, 0)

InitLBVars ==
    /\ lbs = <<>>
    /\ heap = <<>>
    /\ lkp = NoLkp
    /\ itaRes = NoItaRes

\* indexes of the builder specification: CanSupport is not consulted there
LBIndexes == {i \in Indexes : i.support = "any"}

\* NewLookupBuilder(index, keyExprs, matchesNullMask) with
\* len(keyExprs) = len(matchesNullMask) <= number of index columns
DoNewLookupBuilder(idxs) ==
    /\ Len(lbs) = 0
    /\ \E idx \in idxs : \E n \in 1..MaxArity :
         /\ n <= cets(idx)
         /\ \E mask \in Masks(n) : lbs' = Append(lbs, NewLookupBuilder(idx, n, mask))
    /\ UNCHANGED <<heap, lkp, itaRes, notLB>>

\* lb.WithExpressions(node, exprs...): a new builder on success
DoWithExpressions ==
    /\ Len(lbs) < MaxBuilders
    /\ \E b \in 1..Len(lbs) : \E n \in 1..MaxArity :
         LET err == WithExpressionsErr(lbs[b], n)
         IN /\ lbs' = IF err = "nil" THEN Append(lbs, WithExpressions(lbs[b], n)) ELSE lbs
            /\ lkp' = [called |-> FALSE, lb |-> b, key |-> <<>>,
                       lookup |-> EmptyLookup, err |-> err, reused |-> FALSE]
    /\ UNCHANGED <<heap, itaRes, notLB>>

\* lb.GetLookup(key) with a key produced by GetKey or GetZeroKey
DoGetLookup ==
    /\ \E b \in 1..Len(lbs) : \E key \in Keys(lbs[b].keyLen) :
         LET r == GetLookup(lbs[b], heap, key)
         IN /\ lbs' = [lbs EXCEPT ![b] = r.lb]
            /\ heap' = r.heap
            /\ lkp' = [called |-> TRUE, lb |-> b, key |-> key,
                       lookup |-> r.lookup, err |-> "nil",
                       reused |-> lbs[b].rang # 0]
    /\ UNCHANGED <<itaRes, notLB>>

NextLB ==
    \/ DoNewLookupBuilder(LBIndexes)
    \/ DoWithExpressions
    \/ DoGetLookup

(***************************************************************************)
(* A lookup kept by the caller that asked for it.  The IndexLookup a       *)
(* builder returns is a value the caller goes on using (an iterator reads  *)
(* its Ranges row after row); held is such a lookup, with the builder and  *)
(* key it came from and its ranges and flags as they were when returned.   *)
(***************************************************************************)
Held(called, b, key, lookup, ranges) ==
    [called |-> called, lb |-> b, key |-> key, lookup |-> lookup,
     ranges |-> ranges]

NoHeld == Held(FALSE, 0, <<>>, EmptyLookup, <<>>)

InitHeldVars == held = NoHeld

\* the caller of the last GetLookup keeps the lookup it was given
DoHoldLookup ==
    /\ lkp.called
    /\ ~held.called
    /\ held' = Held(TRUE, lkp.lb, lkp.key, lkp.lookup, RangesOf(lkp.lookup, heap))
    /\ UNCHANGED <<lbVars, wt, cdvVars, pbVars, anaVars, dbVars>>

NextShared ==
    \/ DoNewLookupBuilder(LBIndexes)
    \/ DoWithExpressions
    \/ DoGetLookup
    \/ DoHoldLookup

(***************************************************************************)
(* plan.IndexedTableAccess                                                 *)
(***************************************************************************)
\* table.(sql.IndexAddressableTable) after
\* "if t, ok := table.(sql.TableWrapper); ok { table = t.Underlying() }"
IsIndexAddressable(t) == IF t.wrapper THEN t.underIA ELSE t.ia

\* lookupCheckErr with the polarity of the test inverted
lookupCheckErr_inverted(lookup, h) ==
    IF CanSupport(lookup.Index, h[lookup.Ranges])
    THEN "ErrInvalidLookupForIndexedTable"
    ELSE "nil"

\* the error of the check "if !lookup.Index.CanSupport(lookup.Ranges...)"
\* of the two constructors
lookupCheckErr(lookup, h) ==
    IF ~CanSupport(lookup.Index, h[lookup.Ranges])
    THEN "ErrInvalidLookupForIndexedTable"
    ELSE "nil"

\* NewIndexedAccessForResolvedTable(rt, lb) for the table t of rt and the
\* builder lb with identity b, on heap h
NewIndexedAccessForResolvedTable(t, b, lb, h) ==
    IF ~IsIndexAddressable(t)
    THEN [err |-> "not index addressable", node |-> NoNode, lb |-> lb, heap |-> h,
          lookup |-> EmptyLookup]
    ELSE LET r == GetLookup(lb, h, GetZeroKey(lb))
             err == lookupCheckErr(r.lookup, r.heap)
         IN [err |-> err,
             node |-> IF err = "nil" THEN IndexedTableAccess(t, b, EmptyLookup) ELSE NoNode,
             lb |-> r.lb, heap |-> r.heap, lookup |-> r.lookup]

\* NewStaticIndexedAccessForResolvedTable(rt, lookup) on heap h
NewStaticIndexedAccessForResolvedTable(t, lookup, h) ==
    IF ~IsIndexAddressable(t)
    THEN [err |-> "not index addressable", node |-> NoNode]
    ELSE LET err == lookupCheckErr(lookup, h)
         IN [err |-> err,
             node |-> IF err = "nil" THEN IndexedTableAccess(t, 0, lookup) ELSE NoNode]

\* ResolvedTable.WithTable(table): the resolved table over the new table
ResolvedTableWithTable(rt, t) == [err |-> "nil", rt |-> t]

\* the error of the last check of IndexedTableAccess.WithTable
withTableCheckErr(lookup, h) ==
    IF lookup.Index = NoIndex
    THEN "panic"
    ELSE IF CanSupport(lookup.Index, h[lookup.Ranges])
         THEN "ErrInvalidLookupForIndexedTable"
         ELSE "nil"

\* i.WithTable(table) for the node i (a copy: value receiver), the builders
\* bs and heap h
WithTable(i, t, bs, h) ==
    LET nrt == ResolvedTableWithTable(i.ResolvedTable, t)
    IN IF nrt.err # "nil"
       THEN [err |-> nrt.err, node |-> NoNode, lbs |-> bs, heap |-> h,
             lookup |-> EmptyLookup]
       ELSE IF ~IsIndexAddressable(t)
       THEN [err |-> "table does not support indexed access", node |-> NoNode,
             lbs |-> bs, heap |-> h, lookup |-> EmptyLookup]
       ELSE LET r == IF i.lookup.Index # NoIndex
                     THEN [lbs |-> bs, heap |-> h, lookup |-> i.lookup]
                     ELSE IF i.lb # 0
                     THEN LET g == GetLookup(bs[i.lb], h, GetZeroKey(bs[i.lb]))
                          IN [lbs |-> [bs EXCEPT ![i.lb] = g.lb], heap |-> g.heap,
                              lookup |-> g.lookup]
                     ELSE [lbs |-> bs, heap |-> h, lookup |-> EmptyLookup]
                err == withTableCheckErr(r.lookup, r.heap)
            IN [err |-> err,
                node |-> IF err = "nil" THEN [i EXCEPT !.ResolvedTable = nrt.rt]
                         ELSE NoNode,
                lbs |-> r.lbs, heap |-> r.heap, lookup |-> r.lookup]

\* IndexedTableAccess.Children(): nil
ITAChildren == 0

\* the error of i.WithChildren(children...) for n = len(children)
ITAWithChildrenErr(n) == IF n # 0 THEN "ErrInvalidChildrenNumber" ELSE "nil"

\* NewIndexedAccessForResolvedTable(rt, lb)
DoNewIndexedAccess ==
    /\ \E t \in Tables : \E b \in 1..Len(lbs) :
         LET r == NewIndexedAccessForResolvedTable(t, b, lbs[b], heap)
         IN /\ lbs' = [lbs EXCEPT ![b] = r.lb]
            /\ heap' = r.heap
            /\ itaRes' = ItaRes("NewIndexedAccessForResolvedTable", r.err, r.node, t,
                                r.lookup, RangesOf(r.lookup, r.heap), b)
            /\ lkp' = IF IsIndexAddressable(t)
                      THEN [called |-> TRUE, lb |-> b, key |-> GetZeroKey(lbs[b]),
                            lookup |-> r.lookup, err |-> "nil",
                            reused |-> lbs[b].rang # 0]
                      ELSE lkp
    /\ UNCHANGED notLB

\* NewStaticIndexedAccessForResolvedTable(rt, lookup) with a lookup a
\* builder returned
DoNewStaticIndexedAccess ==
    /\ lkp.called
    /\ \E t \in Tables :
         LET r == NewStaticIndexedAccessForResolvedTable(t, lkp.lookup, heap)
         IN itaRes' = ItaRes("NewStaticIndexedAccessForResolvedTable", r.err,
                             r.node, t, lkp.lookup, RangesOf(lkp.lookup, heap), 0)
    /\ UNCHANGED <<lbs, heap, lkp, notLB>>

\* i.WithTable(table) on the node the last call returned
DoWithTable ==
    /\ itaRes.node.isNode
    /\ \E t \in Tables :
         LET r == WithTable(itaRes.node, t, lbs, heap)
         IN /\ lbs' = r.lbs
            /\ heap' = r.heap
            /\ itaRes' = ItaRes("WithTable", r.err, r.node, t, r.lookup,
                                RangesOf(r.lookup, r.heap), 0)
    /\ UNCHANGED <<lkp, notLB>>

\* i.WithChildren(children...) on the node the last call returned
DoITAWithChildren ==
    /\ itaRes.node.isNode
    /\ \E n \in 0..MaxChildren :
         itaRes' = ItaRes("WithChildren", ITAWithChildrenErr(n),
                          IF ITAWithChildrenErr(n) = "nil" THEN itaRes.node ELSE NoNode,
                          itaRes.node.ResolvedTable, EmptyLookup, <<>>, n)
    /\ UNCHANGED <<lbs, heap, lkp, notLB>>

NextITA ==
    \/ DoNewLookupBuilder(Indexes)
    \/ DoGetLookup
    \/ DoNewIndexedAccess
    \/ DoNewStaticIndexedAccess
    \/ DoWithTable
    \/ DoITAWithChildren

(***************************************************************************)
(* analyzer.withTable.  transform.Node visits the nodes of a plan bottom   *)
(* up and the function withTable passes to it looks at each node alone, so *)
(* a plan is held as the sequence of its nodes in the order they are       *)
(* visited.  wt is the last call: the plan and table given, and the plan,  *)
(* tree identity and error returned.                                       *)
(***************************************************************************)
PlanNode(kind, t, ita) == [kind |-> kind, table |-> t, ita |-> ita]

OtherNode == PlanNode("Other", NoTable, NoNode)
ResolvedTableNode(t) == PlanNode("ResolvedTable", t, NoNode)
IndexedTableAccessNode(i) == PlanNode("IndexedTableAccess", i.ResolvedTable, i)

\* what the function of withTable returns for node n, foundTable being found
withTableNode(n, table, found, bs, h) ==
    CASE n.kind = "ResolvedTable" ->
           IF found
           THEN [err |-> "ErrInAnalysis", node |-> OtherNode, same |-> TRUE,
                 found |-> found, lbs |-> bs, heap |-> h]
           ELSE CHOOSE res \in
                  {IF r.err # "nil"
                   THEN [err |-> r.err, node |-> OtherNode, same |-> TRUE,
                         found |-> TRUE, lbs |-> bs, heap |-> h]
                   ELSE [err |-> "nil", node |-> ResolvedTableNode(r.rt),
                         same |-> FALSE, found |-> TRUE, lbs |-> bs, heap |-> h]
                     : r \in {ResolvedTableWithTable(n.table, table)}} : TRUE
      [] n.kind = "IndexedTableAccess" ->
           IF found
           THEN [err |-> "ErrInAnalysis", node |-> OtherNode, same |-> TRUE,
                 found |-> found, lbs |-> bs, heap |-> h]
           ELSE CHOOSE res \in
                  {IF r.err # "nil"
                   THEN [err |-> r.err, node |-> OtherNode, same |-> TRUE,
                         found |-> TRUE, lbs |-> r.lbs, heap |-> r.heap]
                   ELSE [err |-> "nil", node |-> IndexedTableAccessNode(r.node),
                         same |-> FALSE, found |-> TRUE, lbs |-> r.lbs,
                         heap |-> r.heap]
                     : r \in {WithTable(n.ita, table, bs, h)}} : TRUE
      [] OTHER -> [err |-> "nil", node |-> n, same |-> TRUE, found |-> found,
                   lbs |-> bs, heap |-> h]

\* transform.Node from node i of the plan on: out is the plan rewritten so
\* far, same whether every node so far came back with SameTree
RECURSIVE transformNode(_, _, _, _, _, _, _, _)
transformNode(nodes, i, table, found, out, same, bs, h) ==
    IF i > Len(nodes)
    THEN [err |-> "nil", node |-> out,
          identity |-> IF same THEN "SameTree" ELSE "NewTree",
          lbs |-> bs, heap |-> h]
    ELSE CHOOSE res \in
           {IF r.err # "nil"
            THEN [err |-> r.err, node |-> <<>>, identity |-> "SameTree",
                  lbs |-> r.lbs, heap |-> r.heap]
            ELSE transformNode(nodes, i + 1, table, r.found, Append(out, r.node),
                               same /\ r.same, r.lbs, r.heap)
              : r \in {withTableNode(nodes[i], table, found, bs, h)}} : TRUE

\* withTable(node, table)
withTable(nodes, table, bs, h) ==
    transformNode(nodes, 1, table, FALSE, <<>>, TRUE, bs, h)

Wt(called, nodes, table, r) ==
    [called |-> called, tree |-> nodes, table |-> table, err |-> r.err,
     node |-> r.node, identity |-> r.identity]

NoWt == Wt(FALSE, <<>>, NoTable,
           [err |-> "nil", node |-> <<>>, identity |-> "SameTree"])

InitWtVars == wt = NoWt

\* the table a plan's ResolvedTable starts with
BaseTable == Table(FALSE, TRUE, FALSE)

\* the nodes a plan is made of: the node the last constructor returned, a
\* ResolvedTable, and nodes without a table
TreeNodes ==
    {OtherNode, ResolvedTableNode(BaseTable)}
        \cup (IF itaRes.node.isNode
              THEN {IndexedTableAccessNode(itaRes.node)} ELSE {})

Trees == UNION {[1..n -> TreeNodes] : n \in 1..MaxTreeNodes}

\* withTable(node, table) on a plan, once the plan is built
DoAnalyzerWithTable ==
    /\ ~wt.called
    /\ \E nodes \in Trees : \E t \in Tables :
       \E r \in {withTable(nodes, t, lbs, heap)} :
            /\ wt' = Wt(TRUE, nodes, t, r)
            /\ lbs' = r.lbs
            /\ heap' = r.heap
    /\ UNCHANGED <<lkp, itaRes, held, cdvVars, pbVars, anaVars, dbVars>>

\* the plan is built before the analyzer rewrites it
NextWithTable ==
    \/ ~wt.called /\ DoNewLookupBuilder(Indexes)
    \/ ~wt.called /\ DoNewIndexedAccess
    \/ ~wt.called /\ DoNewStaticIndexedAccess
    \/ DoAnalyzerWithTable

(***************************************************************************)
(* sql.ColumnDefaultValue                                                  *)
(*                                                                         *)
(* An inner expression is described by what the code asks of it: how many  *)
(* children it has, and what Eval returns on the nil row and on a row.     *)
(* Eval returns an error ("err") or a value: NULL, the integer "0", the    *)
(* string "s0", the integer "big", the string "bad".                       *)
(***************************************************************************)
EvalValues == {NULL, "0", "s0", "big", "bad"}
EvalOutcomes == EvalValues \cup {"err"}
Rows == {"nilRow", "row"}

Expr(c, onNil, onRow) ==
    [placeholder |-> FALSE, children |-> c, onNil |-> onNil, onRow |-> onRow]

\* literals and other constant expressions (the same outcome on every row),
\* and expressions over the row: they fail or give NULL without one
Exprs == {Expr(0, v, v) : v \in EvalOutcomes}
         \cup {Expr(1, "err", v) : v \in EvalValues}
         \cup {Expr(1, NULL, v) : v \in EvalValues \ {NULL}}

\* UnresolvedColumnDefault{exprString}: Eval and Type panic
UnresolvedColumnDefault ==
    [placeholder |-> TRUE, children |-> 0, onNil |-> "err", onRow |-> "err"]

\* what Expression.Eval(ctx, r) returns
ExprEval(x, r) == IF r = "nilRow" THEN x.onNil ELSE x.onRow

\* Expression.IsNullable(), Expression.Resolved()
ExprIsNullable(x) == x.placeholder \/ x.onNil = NULL \/ x.onRow = NULL
ExprResolved(x) == ~x.placeholder

\* the output types: the nil Type and an integer type
NoType == "nil"
OutTypes == {NoType, "int"}

\* Type.Convert(v) of the integer type: the converted value, whether it was
\* in range, and whether the conversion failed
Convert(typ, v) ==
    CASE v = NULL -> [val |-> NULL, inRange |-> TRUE, err |-> FALSE]
      [] v = "0" -> [val |-> "0", inRange |-> TRUE, err |-> FALSE]
      [] v = "s0" -> [val |-> "0", inRange |-> TRUE, err |-> FALSE]
      [] v = "big" -> [val |-> "max", inRange |-> FALSE, err |-> FALSE]
      [] OTHER -> [val |-> NULL, inRange |-> FALSE, err |-> TRUE]

\* the nil *ColumnDefaultValue: the implicit default
Absent ==
    [absent |-> TRUE, Expression |-> UnresolvedColumnDefault, OutType |-> NoType,
     Literal |-> FALSE, ReturnNil |-> FALSE, Parenthesized |-> FALSE]

\* NewColumnDefaultValue(expr, outType, representsLiteral, parenthesized, mayReturnNil)
NewColumnDefaultValue(expr, outType, representsLiteral, parenthesized, mayReturnNil) ==
    [absent |-> FALSE, Expression |-> expr, OutType |-> outType,
     Literal |-> representsLiteral, ReturnNil |-> mayReturnNil,
     Parenthesized |-> parenthesized]

\* NewUnresolvedColumnDefaultValue(expr)
NewUnresolvedColumnDefaultValue ==
    [absent |-> FALSE, Expression |-> UnresolvedColumnDefault, OutType |-> NoType,
     Literal |-> FALSE, ReturnNil |-> FALSE, Parenthesized |-> FALSE]

\* the outcome of a call: out is "ok" (returned without error), "err"
\* (returned an error) or "panic" (nil dereference or placeholder panic)
Ret(v) == [out |-> "ok", err |-> "nil", val |-> v]
Err(e) == [out |-> "err", err |-> e, val |-> NULL]
Panic == [out |-> "panic", err |-> "nil", val |-> NULL]

\* e.Children(): the number of children
CDVChildren(e) == IF e.absent THEN 0 ELSE 1

\* evalNullCheck without the test of ReturnNil
evalNullCheck_ignoresNull(e, val) == "nil"

\* the check of Eval on the value of the inner expression
evalNullCheck(e, val) ==
    IF val = NULL /\ ~e.ReturnNil THEN "ErrColumnDefaultReturnedNull" ELSE "nil"

\* Eval testing the range of the converted value before the conversion error
Eval_rangeFirst(e, r) ==
    IF e.absent THEN Ret(NULL)
    ELSE IF e.Expression.placeholder THEN Panic
    ELSE LET val == ExprEval(e.Expression, r)
         IN IF val = "err" THEN Err("inner")
            ELSE IF evalNullCheck(e, val) # "nil" THEN Err(evalNullCheck(e, val))
            ELSE IF e.OutType # NoType
            THEN LET c == Convert(e.OutType, val)
                 IN IF ~c.inRange THEN Err("ErrValueOutOfRange")
                    ELSE IF c.err THEN Err("ErrIncompatibleDefaultType")
                    ELSE Ret(c.val)
            ELSE Ret(val)

\* e.Eval(ctx, r)
Eval(e, r) ==
    IF e.absent THEN Ret(NULL)
    ELSE IF e.Expression.placeholder THEN Panic
    ELSE LET val == ExprEval(e.Expression, r)
         IN IF val = "err" THEN Err("inner")
            ELSE IF evalNullCheck(e, val) # "nil" THEN Err(evalNullCheck(e, val))
            ELSE IF e.OutType # NoType
            THEN LET c == Convert(e.OutType, val)
                 IN IF c.err THEN Err("ErrIncompatibleDefaultType")
                    ELSE IF ~c.inRange THEN Err("ErrValueOutOfRange")
                    ELSE Ret(c.val)
            ELSE Ret(val)

\* e.IsLiteral(), e.IsParenthesized(), e.IsNullable(), e.Resolved()
IsLiteral(e) == IF e.absent THEN Ret(TRUE) ELSE Ret(e.Literal)
IsParenthesized(e) == IF e.absent THEN Ret(FALSE) ELSE Ret(e.Parenthesized)
IsNullable(e) ==
    IF e.absent THEN Ret(TRUE)
    ELSE IF ~e.ReturnNil THEN Ret(FALSE)
    ELSE Ret(ExprIsNullable(e.Expression))
Resolved(e) ==
    IF e.absent THEN Ret(TRUE)
    ELSE IF e.OutType = NoType THEN Ret(FALSE)
    ELSE Ret(ExprResolved(e.Expression))

\* e.String(), e.DebugString(): the form of the text
String(e) ==
    IF e.absent THEN Ret("")
    ELSE IF e.Literal THEN Ret("expr") ELSE Ret("(expr)")
DebugString(e) ==
    IF e.absent THEN Ret("")
    ELSE IF e.Literal THEN Ret("expr")
    ELSE IF e.Parenthesized THEN Ret("parenthesized(expr)")
    ELSE Ret("(expr)")

\* e.Type()
Type(e) ==
    IF e.absent THEN Ret(NoType)
    ELSE IF e.OutType = NoType
    THEN IF e.Expression.placeholder THEN Panic ELSE Ret("exprType")
    ELSE Ret(e.OutType)

\* e.CollationCoercibility(ctx)
CollationCoercibility(e) ==
    IF e.absent THEN Ret("binary,6") ELSE Ret("GetCoercibility(expr)")

\* e.WithChildren(children...): children is the sequence of expressions;
\* val is the expression returned
WithChildren(e, children) ==
    IF e.absent /\ Len(children) = 0 THEN Ret(e)
    ELSE IF Len(children) # 1 THEN Err("ErrInvalidChildrenNumber")
    ELSE IF e.absent
    THEN Panic
    ELSE Ret(NewColumnDefaultValue(children[1], e.OutType, e.Literal,
                                   e.Parenthesized, e.ReturnNil))

\* CheckType without the test for a NULL value
CheckType_noNullCheck(e) ==
    IF e.absent THEN [r |-> Panic, probed |-> FALSE]
    ELSE IF e.OutType # NoType /\ e.Literal
    THEN IF e.Expression.placeholder THEN [r |-> Panic, probed |-> TRUE]
         ELSE LET val == ExprEval(e.Expression, "nilRow")
              IN IF val = "err" THEN [r |-> Err("inner"), probed |-> TRUE]
                 ELSE LET c == Convert(e.OutType, val)
                      IN IF c.err \/ ~c.inRange
                         THEN [r |-> Err("ErrIncompatibleDefaultType"), probed |-> TRUE]
                         ELSE [r |-> Ret(NULL), probed |-> TRUE]
    ELSE [r |-> Ret(NULL), probed |-> FALSE]

\* e.CheckType(ctx); probed says whether the inner expression was evaluated
CheckType(e) ==
    IF e.absent THEN [r |-> Panic, probed |-> FALSE]
    ELSE IF e.OutType # NoType /\ e.Literal
    THEN IF e.Expression.placeholder THEN [r |-> Panic, probed |-> TRUE]
         ELSE LET val == ExprEval(e.Expression, "nilRow")
              IN IF val = "err" THEN [r |-> Err("inner"), probed |-> TRUE]
                 ELSE IF val = NULL /\ ~e.ReturnNil
                 THEN [r |-> Err("ErrIncompatibleDefaultType"), probed |-> TRUE]
                 ELSE LET c == Convert(e.OutType, val)
                      IN IF c.err \/ ~c.inRange
                         THEN [r |-> Err("ErrIncompatibleDefaultType"), probed |-> TRUE]
                         ELSE [r |-> Ret(NULL), probed |-> TRUE]
    ELSE [r |-> Ret(NULL), probed |-> FALSE]

\* UnresolvedColumnDefault.Children(): nil
UnresolvedChildren == 0

\* u.WithChildren(children...) for n = len(children)
UnresolvedWithChildren(n) ==
    IF n # 0 THEN Err("ErrInvalidChildrenNumber") ELSE Ret("u")

(***************************************************************************)
(* State of the column-default part.                                       *)
(*   cdv     the current *ColumnDefaultValue (Absent is the nil pointer)   *)
(*   cdvRes  the last method call: the method, its receiver, its           *)
(*           arguments and its outcome                                     *)
(***************************************************************************)
CdvRes(op, recv, row, n, r, probed) ==
    [op |-> op, recv |-> recv, row |-> row, n |-> n, r |-> r, probed |-> probed]

InitCDVVars ==
    /\ cdv = Absent
    /\ cdvRes = CdvRes("none", Absent, "nilRow", 0, Ret(NULL), FALSE)

\* a column's default is built once; WithChildren rewrites it afterwards
DoNewColumnDefaultValue ==
    /\ cdv.absent
    /\ \E x \in Exprs \cup {UnresolvedColumnDefault} : \E t \in OutTypes :
       \E lit \in BOOLEAN : \E par \in BOOLEAN : \E mayNil \in BOOLEAN :
         /\ cdv' = NewColumnDefaultValue(x, t, lit, par, mayNil)
         /\ cdvRes' = CdvRes("NewColumnDefaultValue", cdv', "nilRow", 0, Ret(NULL), FALSE)
    /\ UNCHANGED notCDV

DoNewUnresolvedColumnDefaultValue ==
    /\ cdv.absent
    /\ cdv' = NewUnresolvedColumnDefaultValue
    /\ cdvRes' = CdvRes("NewUnresolvedColumnDefaultValue", cdv', "nilRow", 0,
                        Ret(NULL), FALSE)
    /\ UNCHANGED notCDV

\* a method without arguments that returns a value
call(op, r) ==
    /\ cdvRes' = CdvRes(op, cdv, "nilRow", 0, r, FALSE)
    /\ UNCHANGED <<cdv, notCDV>>

DoChildren == call("Children", Ret(CDVChildren(cdv)))
DoIsLiteral == call("IsLiteral", IsLiteral(cdv))
DoIsParenthesized == call("IsParenthesized", IsParenthesized(cdv))
DoIsNullable == call("IsNullable", IsNullable(cdv))
DoResolved == call("Resolved", Resolved(cdv))
DoString == call("String", String(cdv))
DoDebugString == call("DebugString", DebugString(cdv))
DoType == call("Type", Type(cdv))
DoCollationCoercibility == call("CollationCoercibility", CollationCoercibility(cdv))

DoEval ==
    /\ \E row \in Rows : cdvRes' = CdvRes("Eval", cdv, row, 0, Eval(cdv, row), FALSE)
    /\ UNCHANGED <<cdv, notCDV>>

DoCheckType ==
    /\ cdvRes' = CdvRes("CheckType", cdv, "nilRow", 0, CheckType(cdv).r,
                        CheckType(cdv).probed)
    /\ UNCHANGED <<cdv, notCDV>>

\* e.WithChildren(children...) with up to MaxChildren children; the new
\* default becomes the current one
DoWithChildren ==
    /\ \E n \in 0..MaxChildren : \E x \in Exprs :
         LET r == WithChildren(cdv, [i \in 1..n |-> x])
         IN /\ cdvRes' = CdvRes("WithChildren", cdv, "nilRow", n, r, FALSE)
            /\ cdv' = IF r.out = "ok" THEN r.val ELSE cdv
    /\ UNCHANGED notCDV

\* UnresolvedColumnDefault.WithChildren on the inner placeholder
DoUnresolvedWithChildren ==
    /\ ~cdv.absent /\ cdv.Expression.placeholder
    /\ \E n \in 0..MaxChildren :
         cdvRes' = CdvRes("UnresolvedColumnDefault.WithChildren", cdv, "nilRow", n,
                          UnresolvedWithChildren(n), FALSE)
    /\ UNCHANGED <<cdv, notCDV>>

NextCDV ==
    \/ DoNewColumnDefaultValue
    \/ DoNewUnresolvedColumnDefaultValue
    \/ DoChildren
    \/ DoEval
    \/ DoIsLiteral
    \/ DoIsParenthesized
    \/ DoIsNullable
    \/ DoResolved
    \/ DoString
    \/ DoDebugString
    \/ DoType
    \/ DoCollationCoercibility
    \/ DoWithChildren
    \/ DoCheckType
    \/ DoUnresolvedWithChildren

(***************************************************************************)
(* planbuilder: the FROM clause (sql/planbuilder/from.go)                  *)
(*                                                                         *)
(* Table expressions of the parser (ast.TableExpr).  Names are strings;    *)
(* an alias may be written in upper case, strings.ToLower folds it.        *)
(***************************************************************************)
ToLower(s) ==
    CASE s = "T1" -> "t1" [] s = "S" -> "s" [] s = "MYDB" -> "mydb"
      [] s = "EV" -> "ev" [] s = "P" -> "p"
      [] s = "Orders" -> "orders" [] s = "Id" -> "id" [] s = "Total" -> "total"
      [] OTHER -> s

\* join keywords the parser produces
JoinStr == "join"
StraightJoinStr == "straight_join"
LeftJoinStr == "left join"
RightJoinStr == "right join"
FullOuterJoinStr == "full outer join"
NaturalJoinStr == "natural join"
JoinStrs ==
    {JoinStr, StraightJoinStr, LeftJoinStr, RightJoinStr, FullOuterJoinStr,
     NaturalJoinStr}

\* te.Condition.On: absent, the literal TRUE, or another expression
Ons == {"nil", "true", "cond"}

\* a scalar expression of the AST: the tables its column references name,
\* whether it is a bind variable, a bare identifier, a subquery, and whether
\* evaluating it fails
AstExpr(k, refs) == [kind |-> k, refs |-> refs]
NoExpr == AstExpr("nil", {})

\* AS OF clauses of an aliased table
AsOfs ==
    {NoExpr, AstExpr("literal", {}), AstExpr("bindvar", {}),
     AstExpr("bindvarInside", {}), AstExpr("ident", {}),
     AstExpr("evalError", {})}

\* *ast.AliasedTableExpr over a table name
AliasedTableName(qualifier, name, as, lateral, asof) ==
    [kind |-> "AliasedTableExpr", expr |-> "TableName",
     qualifier |-> qualifier, name |-> name, as |-> as,
     lateral |-> lateral, asof |-> asof]

\* *ast.AliasedTableExpr over a subquery: the SELECT gives the columns in
\* select, refers to the tables in refs, and columns renames its output
AliasedSubquery(as, lateral, select, refs, columns) ==
    [kind |-> "AliasedTableExpr", expr |-> "Subquery", as |-> as,
     lateral |-> lateral, select |-> select, refs |-> refs,
     columns |-> columns]

\* *ast.AliasedTableExpr over VALUES rows whose expressions refer to refs
AliasedValues(as, lateral, refs, columns) ==
    [kind |-> "AliasedTableExpr", expr |-> "ValuesStatement", as |-> as,
     lateral |-> lateral, refs |-> refs, columns |-> columns]

\* *ast.AliasedTableExpr over any other expression
AliasedOther(as) ==
    [kind |-> "AliasedTableExpr", expr |-> "other", as |-> as,
     lateral |-> FALSE]

\* *ast.TableFuncExpr; each argument is "literal", "bindvar", "aliased"
\* (an argument with AS), "needsAlias" or "star" (no *ast.AliasedExpr)
TableFuncExpr(name, alias, exprs) ==
    [kind |-> "TableFuncExpr", name |-> name, alias |-> alias,
     exprs |-> exprs]

\* *ast.JSONTableExpr; each column is "plain", "nested" (a NESTED PATH
\* group) or "badType"
JSONTableExpr(alias, data, cols) ==
    [kind |-> "JSONTableExpr", alias |-> alias, data |-> data, cols |-> cols]

\* *ast.JoinTableExpr
JoinTableExpr(l, r, join, on) ==
    [kind |-> "JoinTableExpr", LeftExpr |-> l, RightExpr |-> r,
     Join |-> join, On |-> on]

\* *ast.ParenTableExpr
ParenTableExpr(exprs) == [kind |-> "ParenTableExpr", Exprs |-> exprs]

\* a table expression of a kind buildDataSource does not know
OtherTableExpr == [kind |-> "other"]

(***************************************************************************)
(* The catalog (b.cat) and the session                                     *)
(***************************************************************************)
CurrentDatabase == "mydb"
Databases == {"mydb"}
\* the tables of mydb and their schemas
Catalog ==
    ("t1" :> <<"a", "b">>) @@ ("t2" :> <<"b", "c">>) @@ ("t3" :> <<"d">>)
        @@ ("Orders" :> <<"Id", "Total">>)
\* a name for which the catalog returns neither a table nor an error
GhostTable == "ghost"
\* the table functions and their schemas
TableFunctions == ("f" :> <<"x">>) @@ ("g" :> <<"x">>)

NoErr == "nil"

\* a sql.Table the catalog returns: its own name and schema, the lookup
\* that produced it and the AS OF marker the catalog was given
CatalogTable(name, via, asOf) ==
    [name |-> name, schema |-> Catalog[name], via |-> via, asOf |-> asOf]
NoCatalogTable == [name |-> "", schema |-> <<>>, via |-> "", asOf |-> "nil"]

\* the lookup behind b.cat.Table and b.cat.TableAsOf; database and table
\* names are matched without regard to case
CatLookup(db, name, via, asOf) ==
    LET named == {t \in DOMAIN Catalog : ToLower(t) = ToLower(name)}
    IN  IF ToLower(db) \notin Databases
        THEN [err |-> "ErrDatabaseNotFound", found |-> FALSE,
              tab |-> NoCatalogTable, database |-> ""]
        ELSE IF named # {}
        THEN [err |-> NoErr, found |-> TRUE,
              tab |-> CatalogTable(CHOOSE t \in named : TRUE, via, asOf),
              database |-> ToLower(db)]
        ELSE IF name = GhostTable
        THEN [err |-> NoErr, found |-> FALSE,
              tab |-> NoCatalogTable, database |-> ToLower(db)]
        ELSE [err |-> "ErrTableNotFound", found |-> FALSE,
              tab |-> NoCatalogTable, database |-> ""]

\* b.cat.Table
CatTable(db, name) == CatLookup(db, name, "Table", "nil")
\* b.cat.TableAsOf
CatTableAsOf(db, name, asOf) == CatLookup(db, name, "TableAsOf", asOf)

\* b.cat.TableFunction
CatTableFunction(name) ==
    IF name \in DOMAIN TableFunctions THEN NoErr
    ELSE "ErrTableFunctionNotFound"

(***************************************************************************)
(* Plan nodes.  kids are the child nodes, filter the join condition, sees  *)
(* the tables the expressions inside the node were resolved against, attr  *)
(* further attributes as strings.                                          *)
(***************************************************************************)
Filter(kind, eqs) == [kind |-> kind, eqs |-> eqs]
NoFilter == Filter("nil", <<>>)
Node(op, name, kids, filter, sees, attr) ==
    [op |-> op, name |-> name, kids |-> kids, filter |-> filter,
     sees |-> sees, attr |-> attr]
NilNode == Node("nil", "", <<>>, NoFilter, {}, <<>>)
NewResolvedDualTable ==
    Node("ResolvedDualTable", "", <<>>, NoFilter, {}, <<>>)
NewResolvedTable(tab, database, asOfLit) ==
    Node("ResolvedTable", tab.name, <<>>, NoFilter, {},
         <<database, asOfLit, tab.via, tab.asOf>>)
NewDeferredAsOfTable(rt, asOfExpr) ==
    Node("DeferredAsOfTable", rt.name, <<rt>>, NoFilter, {}, <<asOfExpr>>)
NewTableAlias(alias, child) ==
    Node("TableAlias", alias, <<child>>, NoFilter, {}, <<>>)
NewSubqueryAlias(name, child, lateral, columns) ==
    Node("SubqueryAlias", name, <<child>>, NoFilter, {},
         <<IF lateral THEN "lateral" ELSE "">> \o columns)
NewValueDerivedTable(name, sees, columns) ==
    Node("ValueDerivedTable", name, <<>>, NoFilter, sees, columns)
NewJSONTable(alias, sees, cols) ==
    Node("JSONTable", alias, <<>>, NoFilter, sees, cols)
NewCrossJoin(l, r) == Node("CrossJoin", "", <<l, r>>, NoFilter, {}, <<>>)
NewJoin(l, r, op, filter) == Node(op, "", <<l, r>>, filter, {}, <<>>)

(***************************************************************************)
(* scope (sql/planbuilder/scope.go): the node built so far, the columns    *)
(* the scope defines, and, for the parent chain, the tables visible in the *)
(* enclosing scopes (outer) and the CTE names bound there (ctes).          *)
(* redirectCol records the column redirections of a natural join.          *)
(* A failed build (b.handleErr) carries the error in err and no node.      *)
(***************************************************************************)
scopeColumn(db, table, col) == [db |-> db, table |-> table, col |-> col]
emptyColumn == scopeColumn("", "", "")
\* scopeColumn.empty()
empty(c) == c = emptyColumn

Scope(node, cols, outer, ctes) ==
    [err |-> NoErr, node |-> node, cols |-> cols, outer |-> outer,
     ctes |-> ctes, redirectCol |-> <<>>]
\* b.handleErr(err): the build stops with err
handleErr(err) ==
    [err |-> err, node |-> NilNode, cols |-> <<>>, outer |-> {},
     ctes |-> {}, redirectCol |-> <<>>]
Failed(s) == s.err # NoErr

\* scope.tables: the table names of the scope's own columns
tables(s) == {s.cols[i].table : i \in DOMAIN s.cols} \ {""}
\* the tables a name can be resolved against in s: its own and, through the
\* parent chain, the enclosing ones
visible(s) == s.outer \cup tables(s)
\* scope.push(): an empty child scope of s
push(s) == Scope(NilNode, <<>>, visible(s), s.ctes)
\* scope.appendColumnsFromScope(src)
appendColumnsFromScope(s, src) == [s EXCEPT !.cols = @ \o src.cols]
\* scope.addColumn(col) / scope.newColumn(col)
addColumn(s, col) == [s EXCEPT !.cols = Append(@, col)]
\* scope.redirect(from, to)
redirect(s, from, to) ==
    [s EXCEPT !.redirectCol = Append(@, [from |-> from, to |-> to])]
\* scope.setTableAlias(t): every column of the scope now belongs to t
setTableAlias(s, t) ==
    [s EXCEPT !.cols =
        [i \in DOMAIN s.cols |-> [s.cols[i] EXCEPT !.table = ToLower(t)]]]
\* scope.setColAlias(cols)
setColAlias(s, cols) ==
    [s EXCEPT !.cols =
        [i \in DOMAIN s.cols |->
            IF i \in DOMAIN cols THEN [s.cols[i] EXCEPT !.col = cols[i]]
            ELSE s.cols[i]]]
\* b.renameSource(scope, table, cols)
renameSource(s, table, cols) ==
    LET s1 == IF table # "" THEN setTableAlias(s, table) ELSE s
    IN  IF Len(cols) > 0 THEN setColAlias(s1, cols) ELSE s1

\* the common table expressions a WITH clause can have bound, by name
CteDefs == ("c1" :> <<"a">>)
\* scope.getCte(name): the bound scope, or nil (a failed scope stands for
\* nil here) when no enclosing scope binds the name
NoCte == handleErr("no cte")
getCte(s, name) ==
    IF name \in s.ctes
    THEN Scope(Node("cte", name, <<>>, NoFilter, {}, <<>>),
               [i \in DOMAIN CteDefs[name] |->
                    scopeColumn("", name, CteDefs[name][i])],
               {}, s.ctes)
    ELSE NoCte

\* b.buildScalar(scope, e): fails when e names a table that scope cannot see
buildScalar(s, e) ==
    IF e.refs \subseteq visible(s)
    THEN [err |-> NoErr, kind |-> e.kind, sees |-> visible(s)]
    ELSE [err |-> "ErrTableNotFound", kind |-> "nil", sees |-> {}]

\* b.buildSelectStmt(scope, select) for the SELECT of a derived table
buildSelectStmt(s, t) ==
    IF t.refs \subseteq visible(s)
    THEN Scope(Node("Select", "", <<>>, NoFilter, visible(s), t.select),
               [i \in DOMAIN t.select |-> scopeColumn("", "", t.select[i])],
               s.outer, s.ctes)
    ELSE handleErr("ErrTableNotFound")

\* the first error of a sequence of outcomes, in order
FirstErr(errs) ==
    IF \E i \in DOMAIN errs : errs[i] # NoErr
    THEN errs[CHOOSE i \in DOMAIN errs :
                 /\ errs[i] # NoErr
                 /\ \A j \in DOMAIN errs : j < i => errs[j] = NoErr]
    ELSE NoErr

(***************************************************************************)
(* buildTablescan                                                          *)
(***************************************************************************)
\* only an AS OF expression that is itself a bind variable counts
asofHasBindVar_topLevelOnly(asof) == asof.kind = "bindvar"

\* transform.InspectExpr(asOfExpr, ...): a bind variable anywhere in the
\* AS OF expression
asofHasBindVar(asof) == asof.kind \in {"bindvar", "bindvarInside"}

\* buildTablescan from the catalog's answer cat on: the error checks, the
\* node and the scope columns
tablescanOf(outScope, db, cat, asOfLit, asofBindVar, asOfExpr) ==
    LET err == IF cat.err = "ErrDatabaseNotFound" /\ db = ""
               THEN "ErrNoDatabaseSelected" ELSE cat.err
        rt == NewResolvedTable(cat.tab, cat.database, asOfLit)
        node == IF asofBindVar THEN NewDeferredAsOfTable(rt, asOfExpr)
                ELSE rt
        schema == cat.tab.schema
    IN  IF err # NoErr THEN handleErr(err)
        ELSE IF ~cat.found THEN handleErr("ErrTableNotFound")
        ELSE [outScope EXCEPT
                !.node = node,
                !.cols = [i \in DOMAIN schema |->
                    scopeColumn(ToLower(db), ToLower(cat.tab.name),
                                ToLower(schema[i]))]]

buildTablescan(inScope, db0, name, asof) ==
    LET outScope == push(inScope)
        db == IF db0 = "" THEN CurrentDatabase ELSE db0
        hasAsOf == asof.kind # "nil"
        asOfExpr == buildScalar(inScope, asof)
        asofBindVar == hasAsOf /\ asofHasBindVar(asof)
        \* a bare identifier becomes a string literal, then Eval
        evalErr == hasAsOf /\ ~asofBindVar /\ asof.kind = "evalError"
        asOfLit == IF ~hasAsOf \/ asofBindVar THEN "nil"
                   ELSE IF asof.kind = "ident" THEN "identifier text"
                   ELSE "value"
        \* the one catalog call of the scan
        answers == {IF hasAsOf THEN CatTableAsOf(db, name, asOfLit)
                    ELSE CatTable(db, name)}
    IN  IF hasAsOf /\ asOfExpr.err # NoErr THEN handleErr(asOfExpr.err)
        ELSE IF evalErr THEN handleErr("ErrEval")
        ELSE CHOOSE s \in {tablescanOf(outScope, db, cat, asOfLit,
                                       asofBindVar, asof.kind) :
                               cat \in answers} : TRUE

(***************************************************************************)
(* buildTableFunc                                                          *)
(***************************************************************************)
\* the outcome of one argument of the table function
tableFuncArgErr(e) ==
    CASE e = "aliased" -> "ErrUnsupportedSyntax"
      [] e = "needsAlias" -> "ErrUnsupportedSyntax"
      [] e = "star" -> "ErrUnsupportedSyntax"
      [] OTHER -> NoErr

\* tableFunction.NewInstance(ctx, database, args): the function g
\* evaluates its arguments and so refuses a bind variable
NewInstance(name, args) ==
    IF name = "g" /\ \E i \in DOMAIN args : args[i] = "bindvar"
    THEN [err |-> "ErrInvalidArgument", node |-> NilNode]
    ELSE [err |-> NoErr,
          node |-> Node("TableFunction", name, <<>>, NoFilter, {},
                        <<"instantiated">> \o args)]

buildTableFunc(inScope, t) ==
    LET argErr == FirstErr([i \in DOMAIN t.exprs |->
                               tableFuncArgErr(t.exprs[i])])
        args == t.exprs
        catErr == CatTableFunction(t.name)
        hasBindVarArgs == \E i \in DOMAIN args : args[i] = "bindvar"
        outScope == push(inScope)
        \* hasBindVarArgs selects an empty branch: nothing is deferred
        newInstance == NewInstance(t.name, args)
        newAlias == IF t.alias = "" THEN NewTableAlias(t.name, newInstance.node)
                    ELSE NewTableAlias(t.alias, newInstance.node)
        schema == TableFunctions[t.name]
    IN  IF argErr # NoErr THEN handleErr(argErr)
        ELSE IF catErr # NoErr THEN handleErr(catErr)
        ELSE IF newInstance.err # NoErr THEN handleErr(newInstance.err)
        ELSE [outScope EXCEPT
                !.node = newAlias,
                !.cols = [i \in DOMAIN schema |->
                    scopeColumn(CurrentDatabase, "", schema[i])]]

(***************************************************************************)
(* buildJSONTable.  buildJSONTableCols stops at a column whose type is not *)
(* valid; a NESTED PATH group yields a column without options (Opts nil),  *)
(* whose name buildJSONTable then reads.                                   *)
(***************************************************************************)
buildJSONTableColsErr(cols) ==
    IF \E i \in DOMAIN cols : cols[i] = "badType" THEN "ErrInvalidColumnType"
    ELSE NoErr

buildJSONTable(inScope, t) ==
    LET data == buildScalar(inScope, t.data)
        outScope == push(inScope)
        alias == t.alias
        colsErr == buildJSONTableColsErr(t.cols)
    IN  IF data.err # NoErr THEN handleErr(data.err)
        ELSE IF data.kind = "subquery" THEN handleErr("ErrInvalidArgument")
        ELSE IF colsErr # NoErr THEN handleErr(colsErr)
        ELSE IF \E i \in DOMAIN t.cols : t.cols[i] = "nested"
        THEN handleErr("panic: nil pointer dereference")
        ELSE [outScope EXCEPT
                !.node = NewJSONTable(alias, data.sees, t.cols),
                !.cols = [i \in DOMAIN t.cols |->
                    scopeColumn("", ToLower(alias), t.cols[i])]]

(***************************************************************************)
(* buildFrom, buildJoin, buildNaturalJoin, buildDataSource                 *)
(***************************************************************************)
\* b.validateJoinTableNames(leftScope, rightScope): the error it reports.
\* The name in the error is that of whichever common table the map
\* iteration meets first; only the kind of the error is kept.
\* validateJoinTableNames without its loop
validateJoinTableNames_off(leftScope, rightScope) == NoErr

validateJoinTableNames(leftScope, rightScope) ==
    IF \E t \in tables(leftScope) : t \in tables(rightScope)
    THEN "ErrDuplicateAliasOrTable"
    ELSE NoErr

isLateral(te) ==
    CASE te.kind = "JSONTableExpr" -> TRUE
      [] te.kind = "AliasedTableExpr" -> te.lateral
      [] OTHER -> FALSE

\* the left column buildNaturalJoin matches with rCol: the first one of the
\* same name, or the empty column
matchedColumn(leftScope, rCol) ==
    IF \E j \in DOMAIN leftScope.cols : leftScope.cols[j].col = rCol.col
    THEN leftScope.cols[CHOOSE j \in DOMAIN leftScope.cols :
            /\ leftScope.cols[j].col = rCol.col
            /\ \A k \in DOMAIN leftScope.cols :
                   k < j => leftScope.cols[k].col # rCol.col]
    ELSE emptyColumn

buildNaturalJoin(inScope, leftScope, rightScope) ==
    LET outScope == push(inScope)
        isMatched(rCol) == ~empty(matchedColumn(leftScope, rCol))
        isUnmatched(rCol) == empty(matchedColumn(leftScope, rCol))
        redirected == SelectSeq(rightScope.cols, isMatched)
        \* one equality per right column, matched or not
        eqs == [i \in DOMAIN rightScope.cols |->
                   [l |-> matchedColumn(leftScope, rightScope.cols[i]),
                    r |-> rightScope.cols[i]]]
        filter == IF Len(rightScope.cols) = 0 THEN NoFilter
                  ELSE Filter("and", eqs)
        node == IF filter = NoFilter
                THEN NewCrossJoin(leftScope.node, rightScope.node)
                ELSE NewJoin(leftScope.node, rightScope.node, "InnerJoin",
                             filter)
    IN  [outScope EXCEPT
            !.cols = leftScope.cols
                       \o SelectSeq(rightScope.cols, isUnmatched),
            !.redirectCol =
                [i \in DOMAIN redirected |->
                    [from |-> redirected[i],
                     to |-> matchedColumn(leftScope, redirected[i])]],
            !.node = node]

\* the join type of a join with a condition
joinOp(te) ==
    CASE ToLower(te.Join) = JoinStr ->
            IF isLateral(te.RightExpr) THEN "LateralInnerJoin"
            ELSE "InnerJoin"
      [] ToLower(te.Join) = LeftJoinStr ->
            IF isLateral(te.RightExpr) THEN "LateralLeftJoin"
            ELSE "LeftOuterJoin"
      [] ToLower(te.Join) = RightJoinStr ->
            IF isLateral(te.RightExpr) THEN "LateralRightJoin"
            ELSE "RightOuterJoin"
      [] ToLower(te.Join) = FullOuterJoinStr -> "FullOuterJoin"
      [] OTHER -> "unknown join type"

RECURSIVE buildDataSource(_, _)
RECURSIVE buildJoin(_, _)

\* the scopes buildJoin builds for the two sides
joinLeftScope(inScope, te) == buildDataSource(inScope, te.LeftExpr)
\* the lateral policy without its exception for RIGHT JOIN
joinRightInScope_anyKeyword(inScope, te) ==
    IF isLateral(te.RightExpr) THEN joinLeftScope(inScope, te) ELSE inScope

joinRightInScope(inScope, te) ==
    IF isLateral(te.RightExpr) /\ te.Join # RightJoinStr
    THEN joinLeftScope(inScope, te)
    ELSE inScope
joinRightScope(inScope, te) ==
    buildDataSource(joinRightInScope(inScope, te), te.RightExpr)

buildJoin(inScope, te) ==
    LET leftScope == joinLeftScope(inScope, te)
        rightScope == joinRightScope(inScope, te)
        dup == validateJoinTableNames(leftScope, rightScope)
        outScope == appendColumnsFromScope(
                        appendColumnsFromScope(push(inScope), leftScope),
                        rightScope)
        filter == Filter("scalar", <<>>)
        op == joinOp(te)
    IN  IF Failed(leftScope) THEN leftScope
        ELSE IF Failed(rightScope) THEN rightScope
        ELSE IF dup # NoErr THEN handleErr(dup)
        ELSE IF ToLower(te.Join) = ToLower(NaturalJoinStr)
        THEN buildNaturalJoin(inScope, leftScope, rightScope)
        ELSE IF te.On = "nil" \/ te.On = "true"
        THEN IF te.RightExpr.kind = "AliasedTableExpr" /\ te.RightExpr.lateral
             THEN [outScope EXCEPT !.node =
                      NewJoin(leftScope.node, rightScope.node,
                              "LateralCrossJoin", NoFilter)]
             ELSE [outScope EXCEPT !.node =
                      NewCrossJoin(leftScope.node, rightScope.node)]
        ELSE IF op = "unknown join type" THEN handleErr(op)
        ELSE [outScope EXCEPT !.node =
                 NewJoin(leftScope.node, rightScope.node, op, filter)]

buildDataSource(inScope, te) ==
    CASE te.kind = "AliasedTableExpr" /\ te.expr = "TableName" ->
            LET cteScope == getCte(inScope, te.name)
                outScope ==
                    IF cteScope # NoCte
                    THEN [cteScope EXCEPT !.outer = visible(inScope)]
                    ELSE buildTablescan(inScope, te.qualifier, te.name,
                                        te.asof)
                tAlias == ToLower(te.as)
                aliased == setTableAlias(outScope, tAlias)
            IN  IF Failed(outScope) THEN outScope
                ELSE IF te.as # ""
                THEN [aliased EXCEPT
                         !.node = NewTableAlias(tAlias, outScope.node)]
                ELSE outScope
      [] te.kind = "AliasedTableExpr" /\ te.expr = "Subquery" ->
            LET sqScope == push(inScope)
                outScope == buildSelectStmt(sqScope, te)
                sq == NewSubqueryAlias(te.as, outScope.node, te.lateral,
                                       te.columns)
            IN  IF te.as = "" THEN handleErr("ErrUnsupportedFeature")
                ELSE IF Failed(outScope) THEN outScope
                ELSE [renameSource(outScope, te.as, te.columns)
                         EXCEPT !.node = sq]
      [] te.kind = "AliasedTableExpr" /\ te.expr = "ValuesStatement" ->
            LET exprs == buildScalar(inScope, te)
                outScope == push(inScope)
                vdt == NewValueDerivedTable(te.as, exprs.sees, te.columns)
            IN  IF te.as = "" THEN handleErr("ErrUnsupportedSyntax")
                ELSE IF exprs.err # NoErr THEN handleErr(exprs.err)
                ELSE [renameSource(outScope, te.as, te.columns)
                         EXCEPT !.node = vdt]
      [] te.kind = "AliasedTableExpr" -> handleErr("ErrUnsupportedSyntax")
      [] te.kind = "TableFuncExpr" -> buildTableFunc(inScope, te)
      [] te.kind = "JoinTableExpr" -> buildJoin(inScope, te)
      [] te.kind = "JSONTableExpr" -> buildJSONTable(inScope, te)
      [] te.kind = "ParenTableExpr" ->
            IF Len(te.Exprs) = 1 /\ te.Exprs[1].kind = "JoinTableExpr"
            THEN buildJoin(inScope, te.Exprs[1])
            ELSE handleErr("ErrUnsupportedSyntax")
      [] OTHER -> handleErr("ErrUnsupportedSyntax")

\* the join buildFrom makes of two or more entries: te[1] JOIN te[2] ON
\* TRUE, then each further entry joined on the right
RECURSIVE crossJoinOf(_, _)
\* buildFrom without the loop over te[2:]
crossJoinOf_firstTwo(te, n) == JoinTableExpr(te[1], te[2], JoinStr, "true")

crossJoinOf(te, n) ==
    IF n = 2
    THEN JoinTableExpr(te[1], te[2], JoinStr, "true")
    ELSE JoinTableExpr(crossJoinOf(te, n - 1), te[n], JoinStr, "true")

buildFrom(inScope, te) ==
    IF Len(te) = 0
    THEN [push(inScope) EXCEPT !.node = NewResolvedDualTable]
    ELSE IF Len(te) > 1
    THEN buildJoin(inScope, crossJoinOf(te, Len(te)))
    ELSE buildDataSource(inScope, te[1])

(***************************************************************************)
(* buildUnion.  A statement is a plain SELECT (its output columns in       *)
(* select, the tables it refers to in refs) or a *ast.Union of two         *)
(* statements with a type, an ORDER BY list and a LIMIT clause, of which   *)
(* Limit is the row count and Offset the offset ("nil" when absent).       *)
(***************************************************************************)
UnionStr == "union"
UnionAllStr == "union all"
UnionDistinctStr == "union distinct"

SelectStmt(select, refs) ==
    [kind |-> "Select", select |-> select, refs |-> refs]
Union(l, r, type, orderBy, limit, offset) ==
    [kind |-> "Union", Left |-> l, Right |-> r, Type |-> type,
     OrderBy |-> orderBy, Limit |-> limit, Offset |-> offset]
\* an ORDER BY item
Order(col, descending) == [col |-> col, descending |-> descending]

\* plan.NewUnion(left, right, distinct, limit, offset, sortFields); the
\* attributes are Distinct, Limit, Offset, then the sort fields
NewUnion(l, r, distinct, limit, offset, sortFields) ==
    Node("Union", "", <<l, r>>, NoFilter, {},
         <<IF distinct THEN "distinct" ELSE "all", limit, offset>>
            \o sortFields)
unionDistinct(n) == n.attr[1] = "distinct"
unionLimit(n) == n.attr[2]
unionOffset(n) == n.attr[3]
unionSortFields(n) == SubSeq(n.attr, 4, Len(n.attr))

\* b.buildLimit / b.buildOffset: nil without the clause
buildLimit(inScope, limit) == limit
buildOffset(inScope, offset) == offset

\* b.analyzeOrderBy(fromScope, projScope, order): one column per ORDER BY
\* item; fails when an item names no column of the scope
analyzeOrderBy(fromScope, order) ==
    IF \A i \in DOMAIN order : order[i].col \in
            {fromScope.cols[j].col : j \in DOMAIN fromScope.cols}
    THEN [err |-> NoErr, cols |-> order]
    ELSE [err |-> "ErrColumnNotFound", cols |-> <<>>]

\* sql.SortField{Column: c.scalar, Order: so}
SortField(c) ==
    IF c.descending THEN c.col \o " DESC" ELSE c.col \o " ASC"

\* a union that always removes duplicates
unionIsDistinct_always(u) == TRUE

\* distinct := u.Type != ast.UnionAllStr
unionIsDistinct(u) == u.Type # UnionAllStr

RECURSIVE buildUnion(_, _)

\* b.buildSelectStmt over a statement that may be a union
buildStatement(inScope, s) ==
    IF s.kind = "Union" THEN buildUnion(inScope, s)
    ELSE buildSelectStmt(inScope, s)

\* conflicing external LIMIT / OFFSET: errors made with fmt.Errorf
ErrConflictingLimit == "conflicing external LIMIT"
ErrConflictingOffset == "conflicing external OFFSET"

buildUnion(inScope, u) ==
    LET leftScope == buildStatement(inScope, u.Left)
        rightScope == buildStatement(inScope, u.Right)
        distinct == unionIsDistinct(u)
        limit == buildLimit(inScope, u.Limit)
        offset == buildOffset(inScope, u.Offset)
        orderByScope == analyzeOrderBy(leftScope, u.OrderBy)
        sortFields == [i \in DOMAIN orderByScope.cols |->
                          SortField(orderByScope.cols[i])]
        n == leftScope.node
        ok == n.op = "Union"
        innerSort == ok /\ Len(unionSortFields(n)) > 0
        innerLimit == ok /\ unionLimit(n) # "nil"
        innerOffset == ok /\ unionOffset(n) # "nil"
        sortFields2 == IF innerSort THEN unionSortFields(n) ELSE sortFields
        limit2 == IF innerLimit THEN unionLimit(n) ELSE limit
        offset2 == IF innerOffset THEN unionOffset(n) ELSE offset
        leftNode == IF ok
                    THEN NewUnion(n.kids[1], n.kids[2], unionDistinct(n),
                                  "nil", "nil", <<>>)
                    ELSE n
        ret == NewUnion(leftNode, rightScope.node, distinct, limit2,
                        offset2, sortFields2)
    IN  IF Failed(leftScope) THEN leftScope
        ELSE IF Failed(rightScope) THEN rightScope
        ELSE IF orderByScope.err # NoErr THEN handleErr(orderByScope.err)
        ELSE IF innerSort /\ Len(sortFields) > 0
        THEN handleErr("ErrConflictingExternalQuery")
        ELSE IF innerLimit /\ limit # "nil"
        THEN handleErr(ErrConflictingLimit)
        ELSE IF innerOffset /\ offset # "nil"
        THEN handleErr(ErrConflictingOffset)
        ELSE [leftScope EXCEPT !.node = ret]

(***************************************************************************)
(* State of the plan-builder part: pb is the last build call, its          *)
(* arguments (the enclosing scope and the table expressions), the scope it *)
(* returned and, for buildJoin, the scopes built for the two sides and the *)
(* scope the right side was built in.                                      *)
(***************************************************************************)
NoScope == handleErr("none")

Pb(op, inScope, te, res, left, rightIn, right) ==
    [op |-> op, inScope |-> inScope, te |-> te, res |-> res,
     left |-> left, rightIn |-> rightIn, right |-> right]

\* the scope of a statement: no enclosing query, one CTE bound
RootScope == Scope(NilNode, <<>>, {}, {"c1"})
\* the scope of a subquery of a statement over t3
NestedScope == Scope(NilNode, <<>>, {"t3"}, {})
InScopes == {RootScope, NestedScope}

(***************************************************************************)
(* The window-frame accessors of window_frame_factory.go.  An *ast.Frame   *)
(* is nil or has an extent with a start bound and an end bound that may be *)
(* nil; a bound has a Type and, for N PRECEDING and N FOLLOWING, an Expr.  *)
(* Reading a field through a nil pointer panics.  wf is the last accessor  *)
(* call: the accessor, the frame given and what came back.                 *)
(***************************************************************************)
FrameBound(type, expr) == [isNil |-> FALSE, Type |-> type, Expr |-> expr]

NoFrameExpr == [refs |-> {}, kind |-> "nil"]
FrameOffset(n) == [refs |-> {}, kind |-> n]

NilBound == [isNil |-> TRUE, Type |-> "nil", Expr |-> NoFrameExpr]

Frame(start, end) == [isNil |-> FALSE, Start |-> start, End |-> end]

NilFrame == [isNil |-> TRUE, Start |-> NilBound, End |-> NilBound]

\* the bounds the grammar gives, the offsets being literals
FrameBounds ==
    {FrameBound(t, NoFrameExpr) :
        t \in {"CurrentRow", "UnboundedPreceding", "UnboundedFollowing"}}
    \cup {FrameBound(t, FrameOffset(n)) :
            t \in {"ExprPreceding", "ExprFollowing"}, n \in {"1", "2"}}

\* a frame has a start bound; BETWEEN gives it an end bound as well
Frames ==
    {NilFrame} \cup {Frame(s, e) : s \in FrameBounds, e \in FrameBounds \cup {NilBound}}

\* what an accessor returns: an expression or nil, or a boolean; or it panics
NilFrameExpr == [err |-> NoErr, kind |-> "nil", sees |-> {}]
FrameExprRet(x) == [panic |-> FALSE, isNil |-> FALSE, expr |-> x, bool |-> FALSE]
FrameNilRet == [panic |-> FALSE, isNil |-> TRUE, expr |-> NilFrameExpr, bool |-> FALSE]
FrameBoolRet(v) == [panic |-> FALSE, isNil |-> FALSE, expr |-> NilFrameExpr, bool |-> v]
FramePanic == [panic |-> TRUE, isNil |-> TRUE, expr |-> NilFrameExpr, bool |-> FALSE]

getFrameStartNPreceding(inScope, frame) ==
    IF frame.isNil THEN FrameNilRet
    ELSE IF frame.Start.isNil THEN FramePanic
    ELSE IF frame.Start.Type # "ExprPreceding" THEN FrameNilRet
    ELSE FrameExprRet(buildScalar(inScope, frame.Start.Expr))

getFrameEndNPreceding(inScope, frame) ==
    IF frame.isNil \/ frame.End.isNil \/ frame.End.Type # "ExprPreceding"
    THEN FrameNilRet
    ELSE FrameExprRet(buildScalar(inScope, frame.End.Expr))

getFrameStartNFollowing(inScope, frame) ==
    IF frame.isNil THEN FrameNilRet
    ELSE IF frame.Start.isNil THEN FramePanic
    ELSE IF frame.Start.Type # "ExprFollowing" THEN FrameNilRet
    ELSE FrameExprRet(buildScalar(inScope, frame.Start.Expr))

getFrameEndNFollowing(inScope, frame) ==
    IF frame.isNil \/ frame.End.isNil \/ frame.End.Type # "ExprFollowing"
    THEN FrameNilRet
    ELSE FrameExprRet(buildScalar(inScope, frame.End.Expr))

getFrameStartCurrentRow(frame) ==
    IF frame.isNil THEN FrameBoolRet(FALSE)
    ELSE IF frame.Start.isNil THEN FramePanic
    ELSE FrameBoolRet(frame.Start.Type = "CurrentRow")

getFrameEndCurrentRow(frame) ==
    IF frame.isNil THEN FrameBoolRet(FALSE)
    ELSE IF frame.End.isNil THEN FrameBoolRet(TRUE)
    ELSE FrameBoolRet(frame.End.Type = "CurrentRow")

\* "a && b && c || d && e" is "(a && b && c) || (d && e)": when the first
\* operand is false, frame.Extent.End is read, through frame even if nil
frameUnbounded(frame, type) ==
    IF ~frame.isNil /\ ~frame.Start.isNil /\ frame.Start.Type = type
    THEN FrameBoolRet(TRUE)
    ELSE IF frame.isNil THEN FramePanic
    ELSE FrameBoolRet(~frame.End.isNil /\ frame.End.Type = type)

getFrameUnboundedPreceding(frame) == frameUnbounded(frame, "UnboundedPreceding")

getFrameUnboundedFollowing(frame) == frameUnbounded(frame, "UnboundedFollowing")

Wf(op, frame, r) == [op |-> op, frame |-> frame, r |-> r]

NoWf == Wf("none", NilFrame, FrameNilRet)

\* the call of accessor op on a frame
frameCall(op, frame, r) ==
    /\ wf' = Wf(op, frame, r)
    /\ UNCHANGED <<pb, notPB>>

DoGetFrameStartNPreceding ==
    \E f \in Frames :
        frameCall("getFrameStartNPreceding", f, getFrameStartNPreceding(RootScope, f))

DoGetFrameEndNPreceding ==
    \E f \in Frames :
        frameCall("getFrameEndNPreceding", f, getFrameEndNPreceding(RootScope, f))

DoGetFrameStartNFollowing ==
    \E f \in Frames :
        frameCall("getFrameStartNFollowing", f, getFrameStartNFollowing(RootScope, f))

DoGetFrameEndNFollowing ==
    \E f \in Frames :
        frameCall("getFrameEndNFollowing", f, getFrameEndNFollowing(RootScope, f))

DoGetFrameStartCurrentRow ==
    \E f \in Frames :
        frameCall("getFrameStartCurrentRow", f, getFrameStartCurrentRow(f))

DoGetFrameEndCurrentRow ==
    \E f \in Frames :
        frameCall("getFrameEndCurrentRow", f, getFrameEndCurrentRow(f))

DoGetFrameUnboundedPreceding ==
    \E f \in Frames :
        frameCall("getFrameUnboundedPreceding", f, getFrameUnboundedPreceding(f))

DoGetFrameUnboundedFollowing ==
    \E f \in Frames :
        frameCall("getFrameUnboundedFollowing", f, getFrameUnboundedFollowing(f))

InitPBVars == wf = NoWf /\ pb = Pb("none", RootScope, <<>>, NoScope, NoScope, NoScope, NoScope)

\* the table expressions joins and FROM lists are made of
JoinLeaves ==
    {AliasedTableName("", "t1", "", FALSE, NoExpr),
     AliasedTableName("", "t2", "", FALSE, NoExpr),
     AliasedTableName("", "t2", "T1", FALSE, NoExpr),
     AliasedTableName("", "nope", "", FALSE, NoExpr),
     AliasedSubquery("s", TRUE, <<"b">>, {"t1"}, <<>>),
     AliasedSubquery("S", FALSE, <<"x">>, {}, <<>>),
     JSONTableExpr("j", AstExpr("column", {"t1"}), <<"b">>)}

\* every single data source
Leaves ==
    {AliasedTableName(q, n, as, l, asof) :
        q \in {"", "mydb", "nodb"}, n \in {"t1", "c1", "nope", GhostTable},
        as \in {"", "T1"}, l \in BOOLEAN, asof \in AsOfs}
    \cup {AliasedSubquery(as, l, sel, refs, cols) :
        as \in {"", "s"}, l \in BOOLEAN, sel \in {<<"b">>, <<"x", "y">>},
        refs \in {{}, {"t1"}, {"t3"}}, cols \in {<<>>, <<"z">>}}
    \cup {AliasedValues(as, FALSE, refs, cols) :
        as \in {"", "v"}, refs \in {{}, {"t3"}}, cols \in {<<>>, <<"z">>}}
    \cup {AliasedOther("x"), OtherTableExpr}
    \cup {TableFuncExpr(n, as, <<a>>) :
        n \in {"f", "g", "h"}, as \in {"", "s"},
        a \in {"literal", "bindvar", "aliased", "needsAlias", "star"}}
    \cup {TableFuncExpr("f", "", <<>>),
          TableFuncExpr("f", "", <<"literal", "bindvar">>)}
    \cup {JSONTableExpr(as, d, cols) :
        as \in {"j"},
        d \in {AstExpr("literal", {}), AstExpr("column", {"t3"}),
               AstExpr("subquery", {})},
        cols \in {<<>>, <<"b">>, <<"x", "nested">>, <<"nested", "badType">>}}
    \cup {ParenTableExpr(<<e>>) : e \in JoinLeaves}
    \cup {ParenTableExpr(<<e, e>>) : e \in JoinLeaves}

\* joins nested inside a join: on the left, or in parentheses on the right
NestedLeaves ==
    {AliasedTableName("", "t1", "", FALSE, NoExpr),
     AliasedTableName("", "t2", "", FALSE, NoExpr),
     AliasedSubquery("s", TRUE, <<"b">>, {"t1"}, <<>>)}
NestedJoins ==
    {JoinTableExpr(l, r, j, "cond") :
        l \in NestedLeaves, r \in NestedLeaves,
        j \in {JoinStr, LeftJoinStr, NaturalJoinStr}}
LeftExprs ==
    JoinLeaves \cup NestedJoins
    \cup {ParenTableExpr(<<e>>) : e \in NestedJoins}
RightExprs ==
    JoinLeaves
    \cup {ParenTableExpr(<<JoinTableExpr(
                AliasedTableName("", "t2", "", FALSE, NoExpr),
                AliasedTableName("", "t3", "", FALSE, NoExpr),
                JoinStr, "cond")>>)}
JoinTableExprs ==
    {JoinTableExpr(l, r, j, on) :
        l \in LeftExprs, r \in RightExprs, j \in JoinStrs, on \in Ons}

DoBuildFrom ==
    /\ pb.op = "none"
    /\ \E inScope \in InScopes :
         \E te \in UNION {[1..n -> JoinLeaves] : n \in 0..MaxFrom}
                   \cup {<<e>> : e \in LeftExprs} :
            pb' = Pb("buildFrom", inScope, te, buildFrom(inScope, te),
                     NoScope, NoScope, NoScope)
    /\ UNCHANGED <<wf, notPB>>

DoBuildJoin ==
    /\ pb.op = "none"
    /\ \E inScope \in InScopes :
         \E te \in JoinTableExprs :
            pb' = Pb("buildJoin", inScope, <<te>>, buildJoin(inScope, te),
                     joinLeftScope(inScope, te),
                     joinRightInScope(inScope, te),
                     joinRightScope(inScope, te))
    /\ UNCHANGED <<wf, notPB>>

DoBuildDataSource ==
    /\ pb.op = "none"
    /\ \E inScope \in InScopes :
         \E te \in Leaves :
            pb' = Pb("buildDataSource", inScope, <<te>>,
                     buildDataSource(inScope, te), NoScope, NoScope, NoScope)
    /\ UNCHANGED <<wf, notPB>>

\* the inputs of one table scan
TablescanArgs ==
    {[kind |-> "Tablescan", db |-> db, name |-> name, asof |-> asof] :
        db \in {"", "mydb", "MYDB", "nodb"},
        name \in {"t1", "T1", "Orders", "orders", "nope", GhostTable},
        asof \in AsOfs}

DoBuildTablescan ==
    /\ pb.op = "none"
    /\ \E inScope \in InScopes :
         \E a \in TablescanArgs :
            pb' = Pb("buildTablescan", inScope, <<a>>,
                     buildTablescan(inScope, a.db, a.name, a.asof),
                     NoScope, NoScope, NoScope)
    /\ UNCHANGED <<wf, notPB>>

\* the statements unions are made of
PlainSelects == {SelectStmt(<<"a", "b">>, {}), SelectStmt(<<"a">>, {"t9"})}
OrderBys ==
    {<<>>, <<Order("a", FALSE)>>, <<Order("b", TRUE), Order("a", FALSE)>>,
     <<Order("zz", FALSE)>>}
UnionsOver(lefts, rights) ==
    {Union(l, r, type, orderBy, limit, offset) :
        l \in lefts, r \in rights, type \in {UnionStr, UnionAllStr},
        orderBy \in OrderBys, limit \in {"nil", "5"},
        offset \in {"nil", "2"}}
\* unions of two plain statements
InnerUnions == UnionsOver({SelectStmt(<<"a", "b">>, {})},
                          {SelectStmt(<<"a", "b">>, {})})
\* unions nested twice on the left
NestedUnions ==
    {Union(l, SelectStmt(<<"a", "b">>, {}), UnionDistinctStr, <<>>, limit,
           "nil") :
        l \in InnerUnions, limit \in {"nil", "7"}}
Unions ==
    UnionsOver(PlainSelects \cup InnerUnions \cup NestedUnions,
               {SelectStmt(<<"a", "b">>, {}),
                Union(SelectStmt(<<"a", "b">>, {}),
                      SelectStmt(<<"a", "b">>, {}), UnionStr,
                      <<Order("a", FALSE)>>, "5", "nil")})

DoBuildUnion ==
    /\ pb.op = "none"
    /\ \E u \in Unions :
          pb' = Pb("buildUnion", RootScope, <<u>>, buildUnion(RootScope, u),
                   buildStatement(RootScope, u.Left), RootScope,
                   buildStatement(RootScope, u.Right))
    /\ UNCHANGED <<wf, notPB>>

NextFrom ==
    \/ DoBuildFrom
    \/ DoBuildJoin
    \/ DoBuildDataSource
    \/ DoBuildUnion
    \/ DoBuildTablescan

NextFrame ==
    \/ DoGetFrameStartNPreceding
    \/ DoGetFrameEndNPreceding
    \/ DoGetFrameStartNFollowing
    \/ DoGetFrameEndNFollowing
    \/ DoGetFrameStartCurrentRow
    \/ DoGetFrameEndCurrentRow
    \/ DoGetFrameUnboundedPreceding
    \/ DoGetFrameUnboundedFollowing

(***************************************************************************)
(* The analyzer rule resolveOrderbyLiterals                                *)
(*                                                                         *)
(* A Sort node has sort fields and one child; a sort field has a Column, a *)
(* Column2 and an Order.  The child is a resolved table whose schema       *)
(* columns carry a Name and a Source.                                      *)
(***************************************************************************)
\* expression.NewLiteral(int64(k), types.Int64)
NewLiteral(k) == [kind |-> "Literal", value |-> k, table |-> "", name |-> ""]
\* expression.NewUnresolvedQualifiedColumn(table, name)
NewUnresolvedQualifiedColumn(table, name) ==
    [kind |-> "UnresolvedColumn", value |-> 0, table |-> table, name |-> name]
\* expression.NewUnresolvedColumn(name)
NewUnresolvedColumn(name) == NewUnresolvedQualifiedColumn("", name)
\* the nil sql.Expression
NilExpression == [kind |-> "nil", value |-> 0, table |-> "", name |-> ""]

\* sql.SortField
SortFieldOf(column, column2, order) ==
    [Column |-> column, Column2 |-> column2, Order |-> order]

\* memory.NewTable(name, schema) under plan.NewResolvedTable: every schema
\* column has the table as its Source
SortChild(name, cols) ==
    [name |-> name,
     schema |-> [i \in DOMAIN cols |-> [Name |-> cols[i], Source |-> name]]]

\* plan.NewSort(sortFields, child)
NewSort(sortFields, child) ==
    [op |-> "Sort", SortFields |-> sortFields, Child |-> child]
NilSort == [op |-> "nil", SortFields |-> <<>>, Child |-> SortChild("", <<>>)]

\* the rule reads the literal as a position counted from zero
resolveOrderbyLiterals_zeroBased(n) ==
    LET schema == n.Child.schema
        isLit(f) == f.Column.kind = "Literal"
        idx(f) == f.Column.value
    IN  IF \E i \in DOMAIN n.SortFields :
              /\ isLit(n.SortFields[i])
              /\ (idx(n.SortFields[i]) >= Len(schema)
                    \/ idx(n.SortFields[i]) < 0)
        THEN [err |-> "ErrOrderByColumnIndex", node |-> NilSort]
        ELSE [err |-> NoErr,
              node |-> NewSort(
                [i \in DOMAIN n.SortFields |->
                    LET f == n.SortFields[i]
                    IN  IF isLit(f)
                        THEN LET c == NewUnresolvedQualifiedColumn(
                                         schema[idx(f) + 1].Source,
                                         schema[idx(f) + 1].Name)
                             IN  SortFieldOf(c, c, f.Order)
                        ELSE f],
                n.Child)]

\* resolveOrderbyLiterals applied to a Sort node: an integer literal k is
\* the k-th column of the child's schema, counted from one, and becomes an
\* unresolved qualified column of that column's source and name; a literal
\* outside 1..Len(schema) is ErrOrderByColumnIndex; other sort fields stay
resolveOrderbyLiterals(n) ==
    LET schema == n.Child.schema
        isLit(f) == f.Column.kind = "Literal"
        idx(f) == f.Column.value - 1
    IN  IF \E i \in DOMAIN n.SortFields :
              /\ isLit(n.SortFields[i])
              /\ (idx(n.SortFields[i]) >= Len(schema)
                    \/ idx(n.SortFields[i]) < 0)
        THEN [err |-> "ErrOrderByColumnIndex", node |-> NilSort]
        ELSE [err |-> NoErr,
              node |-> NewSort(
                [i \in DOMAIN n.SortFields |->
                    LET f == n.SortFields[i]
                    IN  IF isLit(f)
                        THEN LET c == NewUnresolvedQualifiedColumn(
                                         schema[idx(f) + 1].Source,
                                         schema[idx(f) + 1].Name)
                             IN  SortFieldOf(c, c, f.Order)
                        ELSE f],
                n.Child)]

\* the state of the analyzer part: the last rule application, the node it
\* was applied to, its outcome, and how often the rule ran on the node
Ana(op, node, res, runs) == [op |-> op, node |-> node, res |-> res, runs |-> runs]
InitAnaVars ==
    ana = Ana("none", NilSort, [err |-> NoErr, node |-> NilSort], 0)

\* the sort fields and children of the Sort nodes the rule is applied to
SortOrders == {"asc", "desc"}
InputSortFields ==
    {SortFieldOf(NewLiteral(k), NilExpression, o) :
        k \in 0..MaxLiteral, o \in SortOrders}
    \cup {SortFieldOf(NewUnresolvedColumn("a"), NilExpression, o) :
        o \in SortOrders}
SortChildren == {SortChild("t", <<"a", "b">>), SortChild("u", <<"x">>)}
SortNodes ==
    {NewSort(fs, c) :
        fs \in UNION {[1..n -> InputSortFields] : n \in 0..MaxSortFields},
        c \in SortChildren}

\* f.Apply(ctx, a, node, nil, sel) for the rule resolveOrderbyLiterals
DoResolveOrderbyLiterals ==
    /\ ana.op = "none"
    /\ \E n \in SortNodes :
          ana' = Ana("resolveOrderbyLiterals", n, resolveOrderbyLiterals(n), 1)
    /\ UNCHANGED notAna

\* the analyzer runs the rule again on the node the rule produced
DoResolveOrderbyLiteralsAgain ==
    /\ ana.op = "resolveOrderbyLiterals"
    /\ ana.runs = 1
    /\ ana.res.err = NoErr
    /\ ana' = [ana EXCEPT !.res = resolveOrderbyLiterals(ana.res.node),
                          !.runs = 2]
    /\ UNCHANGED notAna

(***************************************************************************)
(* The analyzer rule pushdownSort                                          *)
(*                                                                         *)
(* The rule looks at a Sort over a Project, GroupBy or Window.  A sort     *)
(* column is available when the child outputs it, under its own name or    *)
(* under an alias the child defines; otherwise it is missing.              *)
(***************************************************************************)
\* expression.NewGetFieldWithTable(i, typ, table, name, nullable)
NewGetFieldWithTable(i, table, name) ==
    [kind |-> "GetField", value |-> i, table |-> table, name |-> name]
\* expression.NewAlias(name, child)
NewAlias(name, child) ==
    [kind |-> "Alias", value |-> 0, table |-> "", name |-> name,
     child |-> child]

\* plan.NewProject(exprs, child), plan.NewGroupBy(exprs, grouping, child),
\* plan.NewWindow(exprs, child); grouping is empty but for a GroupBy
NewProjection(op, exprs, grouping, child) ==
    [op |-> op, exprs |-> exprs, grouping |-> grouping, Child |-> child]
NewProject(exprs, child) == NewProjection("Project", exprs, <<>>, child)

\* only the columns the child passes through count as its outputs
childOutputs_ignoresAliases(child) ==
    {child.exprs[i].name :
        i \in {j \in DOMAIN child.exprs : child.exprs[j].kind = "GetField"}}

\* the names the child of the Sort outputs: its aliases and its columns
childOutputs(child) == {child.exprs[i].name : i \in DOMAIN child.exprs}

\* the names of the sort fields that the child does not output, in order
RECURSIVE missingCols(_, _)
missingCols(fields, outs) ==
    IF fields = <<>> THEN <<>>
    ELSE LET rest == missingCols(Tail(fields), outs)
             c == Head(fields).Column.name
         IN  IF c \in outs \/ \E i \in DOMAIN rest : rest[i] = c
             THEN rest
             ELSE <<c>> \o rest

\* pushdownSort applied to a Sort over a projecting child
pushdownSort(n) ==
    LET child == n.Child
        outs == childOutputs(child)
        missing == missingCols(n.SortFields, outs)
        fromChild == {i \in DOMAIN n.SortFields :
                         n.SortFields[i].Column.name \in outs}
    IN  IF missing = <<>>
        THEN \* every sort column is available: nothing to do
             [err |-> NoErr, node |-> n]
        ELSE IF fromChild = {}
        THEN \* none is: the Sort moves below its child
             [err |-> NoErr,
              node |-> [child EXCEPT
                          !.Child = NewSort(n.SortFields, child.Child)]]
        ELSE \* some are: the child also outputs the missing columns, and a
             \* Project above the Sort restores the child's outputs
             [err |-> NoErr,
              node |-> NewProject(
                [i \in DOMAIN child.exprs |->
                    NewGetFieldWithTable(i - 1, "", child.exprs[i].name)],
                NewSort(n.SortFields,
                    [child EXCEPT
                       !.exprs = child.exprs \o
                          [i \in DOMAIN missing |->
                              NewUnresolvedColumn(missing[i])]]))]

\* the Sort nodes the rule is applied to: ORDER BY over columns and
\* aliases, over a Project, GroupBy or Window of the table foo(a, b)
FooTable == SortChild("foo", <<"a", "b">>)
ProjectionExprs ==
    {<<NewAlias("x", NewGetFieldWithTable(0, "foo", "a"))>>,
     <<NewGetFieldWithTable(1, "foo", "b")>>,
     <<NewGetFieldWithTable(0, "foo", "a")>>,
     <<NewAlias("x", NewGetFieldWithTable(0, "foo", "a")),
       NewGetFieldWithTable(1, "foo", "b")>>}
Projections ==
    {NewProjection(op, exprs,
                   IF op = "GroupBy"
                   THEN <<NewGetFieldWithTable(0, "foo", "a")>> ELSE <<>>,
                   FooTable) :
        op \in {"Project", "GroupBy", "Window"}, exprs \in ProjectionExprs}
ColumnSortFields ==
    {SortFieldOf(NewUnresolvedColumn(c), NilExpression, o) :
        c \in {"a", "b", "x"}, o \in SortOrders}
PushdownNodes ==
    {NewSort(fs, c) :
        fs \in UNION {[1..n -> ColumnSortFields] : n \in 1..MaxSortFields},
        c \in Projections}

\* rule.Apply(ctx, a, node, nil, sel) for the rule pushdownSort
DoPushdownSort ==
    /\ ana.op = "none"
    /\ \E n \in PushdownNodes :
          ana' = Ana("pushdownSort", n, pushdownSort(n), 1)
    /\ UNCHANGED notAna

NextAnalyzer ==
    \/ DoResolveOrderbyLiterals
    \/ DoResolveOrderbyLiteralsAgain
    \/ DoPushdownSort

(***************************************************************************)
(* The in-memory database                                                  *)
(*                                                                         *)
(* tables and views are Go maps (functions on the keys present);           *)
(* Revisions maps a lower-cased table name to a map from revision to       *)
(* table; triggers, storedProcedures and events are slices.  mlog is the   *)
(* history of AddTableAsOf calls, mres the outcome of the last call with   *)
(* the database as it was before the call.                                 *)
(***************************************************************************)
\* the empty Go map
EmptyMap == [k \in {} |-> ""]
\* m[k] = v
MapPut(m, k, v) == (k :> v) @@ m
\* delete(m, k)
MapDelete(m, k) == [x \in DOMAIN m \ {k} |-> m[x]]

\* NewHistoryDatabase(name) / NewDatabase(name)
NewDatabase ==
    [tables |-> EmptyMap, Revisions |-> EmptyMap, triggers |-> <<>>,
     storedProcedures |-> <<>>, events |-> <<>>, views |-> EmptyMap]

\* the outcome of a call
Mres(op, args, err, out, before) ==
    [op |-> op, args |-> args, err |-> err, out |-> out, before |-> before]
\* a *memory.Table: its name and what tells it from other tables
MemTable(name, data) == [name |-> name, data |-> data]
\* the nil sql.Table
NoTableFound == MemTable("", "nil")

InitDBVars ==
    /\ mdb = NewDatabase
    /\ mlog = <<>>
    /\ mres = Mres("none", <<>>, NoErr, NoTableFound, NewDatabase)

\* sql.GetTableInsensitive(tblName, tbls): the table under the exact
\* name if there is one, else a table whose name matches without regard to
\* case, in the order the map happens to be ranged over
GetTableInsensitiveOutcomes(tblName, tbls) ==
    IF tblName \in DOMAIN tbls THEN {tbls[tblName]}
    ELSE IF \E k \in DOMAIN tbls : ToLower(k) = ToLower(tblName)
    THEN {tbls[k] : k \in {x \in DOMAIN tbls :
                                ToLower(x) = ToLower(tblName)}}
    ELSE {NoTableFound}

\* HistoryDatabase.AddTableAsOf(name, t, asOf)
AddTableAsOf(d, name, t, asOf) ==
    LET revs == IF ToLower(name) \in DOMAIN d.Revisions
                THEN d.Revisions[ToLower(name)] ELSE EmptyMap
    IN  [d EXCEPT
           !.Revisions = MapPut(d.Revisions, ToLower(name),
                                MapPut(revs, asOf, t)),
           !.tables = MapPut(d.tables, name, t)]

\* BaseDatabase.AddTable(name, t)
AddTable(d, name, t) == [d EXCEPT !.tables = MapPut(d.tables, name, t)]

\* HistoryDatabase.GetTableInsensitiveAsOf(ctx, tblName, time): the set of
\* outcomes it can have
GetTableInsensitiveAsOf(d, tblName, time) ==
    IF /\ ToLower(tblName) \in DOMAIN d.Revisions
       /\ time \in DOMAIN d.Revisions[ToLower(tblName)]
    THEN {[err |-> NoErr, out |-> d.Revisions[ToLower(tblName)][time]]}
    ELSE IF ToLower(tblName) \in DOMAIN d.Revisions
    THEN {[err |-> "ErrTableNotFound", out |-> NoTableFound]}
    ELSE {[err |-> NoErr, out |-> t] :
             t \in GetTableInsensitiveOutcomes(tblName, d.tables)}

\* the names, tables and revisions of the calls on a HistoryDatabase
HistoryNames == {"t1", "T1"}
PlainNames == {"t2"}
LookupNames == HistoryNames \cup PlainNames
HistoryTables == {MemTable("t1", "A"), MemTable("t1", "B")}
HistoryRevisions == {"r1", "r2"}

DoAddTableAsOf ==
    /\ Len(mlog) < MaxAdds
    /\ \E name \in HistoryNames, t \in HistoryTables,
          asOf \in HistoryRevisions :
          /\ mdb' = AddTableAsOf(mdb, name, t, asOf)
          /\ mlog' = Append(mlog, [name |-> name, t |-> t, asOf |-> asOf])
          /\ mres' = Mres("AddTableAsOf", <<name, t, asOf>>, NoErr,
                          NoTableFound, mdb)
    /\ UNCHANGED notDB

DoAddTable ==
    /\ Len(mlog) < MaxAdds
    /\ \E name \in PlainNames, t \in HistoryTables :
          /\ mdb' = AddTable(mdb, name, t)
          /\ mlog' = Append(mlog, [name |-> name, t |-> t, asOf |-> "nil"])
          /\ mres' = Mres("AddTable", <<name, t>>, NoErr, NoTableFound, mdb)
    /\ UNCHANGED notDB

DoGetTableInsensitiveAsOf ==
    /\ \E tblName \in LookupNames, time \in HistoryRevisions :
          \E r \in GetTableInsensitiveAsOf(mdb, tblName, time) :
             mres' = Mres("GetTableInsensitiveAsOf", <<tblName, time>>,
                          r.err, r.out, mdb)
    /\ UNCHANGED <<mdb, mlog>>
    /\ UNCHANGED notDB

DoGetTableInsensitive ==
    /\ \E tblName \in LookupNames :
          \E t \in GetTableInsensitiveOutcomes(tblName, mdb.tables) :
             mres' = Mres("GetTableInsensitive", <<tblName>>, NoErr, t, mdb)
    /\ UNCHANGED <<mdb, mlog>>
    /\ UNCHANGED notDB

NextHistory ==
    \/ DoAddTableAsOf
    \/ DoAddTable
    \/ DoGetTableInsensitiveAsOf
    \/ DoGetTableInsensitive

(***************************************************************************)
(* The mutating operations of BaseDatabase and Database: each gives the    *)
(* error it returns and the database it leaves.                            *)
(***************************************************************************)
DbOutcome(err, d) == [err |-> err, db |-> d]

\* s with its i-th element removed: append(s[:i], s[i+1:]...)
RemoveAt(s, i) == SubSeq(s, 1, i - 1) \o SubSeq(s, i + 1, Len(s))
\* the first index of s whose element satisfies match, 0 if there is none
FirstIndex(s, match(_)) ==
    IF \E i \in DOMAIN s : match(s[i])
    THEN CHOOSE i \in DOMAIN s :
            /\ match(s[i])
            /\ \A j \in DOMAIN s : j < i => ~match(s[j])
    ELSE 0

\* BaseDatabase.CreateTable
CreateTable(d, name) ==
    IF name \in DOMAIN d.tables
    THEN DbOutcome("ErrTableAlreadyExists", d)
    ELSE DbOutcome(NoErr,
            [d EXCEPT !.tables = MapPut(d.tables, name, MemTable(name, "new"))])

\* BaseDatabase.CreateIndexedTable; idxDef is "ok", "noColumn" (an index
\* column the schema does not have) or "textPrefix" (a prefix length on a
\* text primary-key column)
CreateIndexedTable(d, name, idxDef) ==
    IF name \in DOMAIN d.tables
    THEN DbOutcome("ErrTableAlreadyExists", d)
    ELSE IF idxDef = "noColumn" THEN DbOutcome("ErrColumnNotFound", d)
    ELSE IF idxDef = "textPrefix"
    THEN DbOutcome("ErrUnsupportedIndexPrefix", d)
    ELSE DbOutcome(NoErr,
            [d EXCEPT !.tables =
                MapPut(d.tables, name, MemTable(name, "indexed"))])

\* BaseDatabase.DropTable
DropTable(d, name) ==
    IF name \notin DOMAIN d.tables THEN DbOutcome("ErrTableNotFound", d)
    ELSE DbOutcome(NoErr, [d EXCEPT !.tables = MapDelete(d.tables, name)])

\* BaseDatabase.RenameTable
RenameTable(d, oldName, newName) ==
    IF oldName \notin DOMAIN d.tables THEN DbOutcome("ErrTableNotFound", d)
    ELSE IF newName \in DOMAIN d.tables
    THEN DbOutcome("ErrTableAlreadyExists", d)
    ELSE DbOutcome(NoErr,
            [d EXCEPT !.tables =
                MapDelete(MapPut(d.tables, newName,
                                 [d.tables[oldName] EXCEPT !.name = newName]),
                          oldName)])

\* BaseDatabase.CreateTrigger
CreateTrigger(d, definition) ==
    DbOutcome(NoErr, [d EXCEPT !.triggers = Append(d.triggers, definition)])

\* BaseDatabase.DropTrigger: trigger names are compared as they are
DropTrigger(d, name) ==
    LET match(trigger) == trigger = name
        i == FirstIndex(d.triggers, match)
    IN  IF i = 0 THEN DbOutcome("ErrTriggerDoesNotExist", d)
        ELSE DbOutcome(NoErr, [d EXCEPT !.triggers = RemoveAt(d.triggers, i)])

\* BaseDatabase.SaveStoredProcedure
SaveStoredProcedure(d, spd) ==
    IF \E i \in DOMAIN d.storedProcedures :
          ToLower(d.storedProcedures[i]) = ToLower(spd)
    THEN DbOutcome("ErrStoredProcedureAlreadyExists", d)
    ELSE DbOutcome(NoErr,
            [d EXCEPT !.storedProcedures = Append(d.storedProcedures, spd)])

\* BaseDatabase.DropStoredProcedure
DropStoredProcedure(d, name) ==
    LET match(spd) == ToLower(spd) = ToLower(name)
        i == FirstIndex(d.storedProcedures, match)
    IN  IF i = 0 THEN DbOutcome("ErrStoredProcedureDoesNotExist", d)
        ELSE DbOutcome(NoErr,
                [d EXCEPT !.storedProcedures =
                    RemoveAt(d.storedProcedures, i)])

\* sql.EventDefinition
EventDefinition(name, definition) == [Name |-> name, Definition |-> definition]

\* BaseDatabase.SaveEvent
SaveEvent(d, ed) ==
    IF \E i \in DOMAIN d.events : ToLower(d.events[i].Name) = ToLower(ed.Name)
    THEN DbOutcome("ErrEventAlreadyExists", d)
    ELSE DbOutcome(NoErr, [d EXCEPT !.events = Append(d.events, ed)])

\* BaseDatabase.DropEvent
DropEvent(d, name) ==
    LET match(ed) == ToLower(ed.Name) = ToLower(name)
        i == FirstIndex(d.events, match)
    IN  IF i = 0 THEN DbOutcome("ErrEventDoesNotExist", d)
        ELSE DbOutcome(NoErr, [d EXCEPT !.events = RemoveAt(d.events, i)])

\* the loop of UpdateEvent from index i on: events is the slice as the
\* earlier iterations left it
RECURSIVE updateEventLoop(_, _, _, _, _)
updateEventLoop(events, i, originalName, ed, found) ==
    LET loweredOriginalName == ToLower(originalName)
        loweredNewName == ToLower(ed.Name)
    IN  IF i > Len(events)
        THEN [err |-> IF found THEN NoErr ELSE "ErrEventDoesNotExist",
              events |-> events]
        ELSE IF /\ loweredOriginalName # loweredNewName
                /\ ToLower(events[i].Name) = loweredNewName
        THEN \* renaming event to existing name
             [err |-> "ErrEventAlreadyExists", events |-> events]
        ELSE IF ToLower(events[i].Name) = loweredOriginalName
        THEN updateEventLoop([events EXCEPT ![i] = ed], i + 1,
                             originalName, ed, TRUE)
        ELSE updateEventLoop(events, i + 1, originalName, ed, found)

\* BaseDatabase.UpdateEvent
UpdateEvent(d, originalName, ed) ==
    LET r == updateEventLoop(d.events, 1, originalName, ed, FALSE)
    IN  DbOutcome(r.err, [d EXCEPT !.events = r.events])

\* Database.CreateView
CreateView(d, name) ==
    IF name \in DOMAIN d.views THEN DbOutcome("ErrExistingView", d)
    ELSE DbOutcome(NoErr, [d EXCEPT !.views = MapPut(d.views, name, name)])

\* Database.DropView
DropView(d, name) ==
    IF name \notin DOMAIN d.views THEN DbOutcome("ErrViewDoesNotExist", d)
    ELSE DbOutcome(NoErr, [d EXCEPT !.views = MapDelete(d.views, name)])

\* the arguments of the calls
TableNames == {"t1", "t2"}
IndexDefs == {"ok", "noColumn", "textPrefix"}
TriggerNames == {"tr"}
ProcedureNames == {"p", "P"}
EventNames == {"ev", "EV", "ev2"}
EventDefinitions ==
    {EventDefinition("ev", "d1"), EventDefinition("EV", "d2"),
     EventDefinition("ev2", "d1")}
ViewNames == {"v"}

\* one mutating call with outcome r
dbCall(op, args, r) ==
    /\ Len(mlog) < MaxCalls
    /\ mdb' = r.db
    /\ mlog' = Append(mlog, [name |-> op, t |-> NoTableFound, asOf |-> "nil"])
    /\ mres' = Mres(op, args, r.err, NoTableFound, mdb)
    /\ UNCHANGED notDB

DoCreateTable ==
    \E name \in TableNames :
        dbCall("CreateTable", <<name>>, CreateTable(mdb, name))
DoCreateIndexedTable ==
    \E name \in TableNames, idxDef \in IndexDefs :
        dbCall("CreateIndexedTable", <<name, idxDef>>,
               CreateIndexedTable(mdb, name, idxDef))
DoDropTable ==
    \E name \in TableNames :
        dbCall("DropTable", <<name>>, DropTable(mdb, name))
DoRenameTable ==
    \E oldName \in TableNames, newName \in TableNames :
        dbCall("RenameTable", <<oldName, newName>>,
               RenameTable(mdb, oldName, newName))
DoCreateTrigger ==
    \E name \in TriggerNames :
        dbCall("CreateTrigger", <<name>>, CreateTrigger(mdb, name))
DoDropTrigger ==
    \E name \in TriggerNames :
        dbCall("DropTrigger", <<name>>, DropTrigger(mdb, name))
DoSaveStoredProcedure ==
    \E spd \in ProcedureNames :
        dbCall("SaveStoredProcedure", <<spd>>, SaveStoredProcedure(mdb, spd))
DoDropStoredProcedure ==
    \E name \in ProcedureNames :
        dbCall("DropStoredProcedure", <<name>>,
               DropStoredProcedure(mdb, name))
DoSaveEvent ==
    \E ed \in EventDefinitions :
        dbCall("SaveEvent", <<ed.Name>>, SaveEvent(mdb, ed))
DoDropEvent ==
    \E name \in EventNames :
        dbCall("DropEvent", <<name>>, DropEvent(mdb, name))
DoUpdateEvent ==
    \E originalName \in EventNames, ed \in EventDefinitions :
        dbCall("UpdateEvent", <<originalName, ed.Name>>,
               UpdateEvent(mdb, originalName, ed))
DoCreateView ==
    \E name \in ViewNames :
        dbCall("CreateView", <<name>>, CreateView(mdb, name))
DoDropView ==
    \E name \in ViewNames :
        dbCall("DropView", <<name>>, DropView(mdb, name))

NextDB ==
    \/ DoCreateTable
    \/ DoCreateIndexedTable
    \/ DoDropTable
    \/ DoRenameTable
    \/ DoCreateTrigger
    \/ DoDropTrigger
    \/ DoSaveStoredProcedure
    \/ DoDropStoredProcedure
    \/ DoSaveEvent
    \/ DoDropEvent
    \/ DoUpdateEvent
    \/ DoCreateView
    \/ DoDropView

(***************************************************************************)
(* Specifications: one per part; the other parts' variables stay as they   *)
(* are.                                                                    *)
(***************************************************************************)
Init ==
    /\ InitLBVars /\ InitHeldVars /\ InitWtVars /\ InitCDVVars /\ InitPBVars
    /\ InitAnaVars /\ InitDBVars

SpecLB == Init /\ [][NextLB]_vars

SpecITA == Init /\ [][NextITA]_vars

SpecShared == Init /\ [][NextShared]_vars

SpecWithTable == Init /\ [][NextWithTable]_vars

SpecCDV == Init /\ [][NextCDV]_vars

SpecFrom == Init /\ [][NextFrom]_vars

SpecFrame == Init /\ [][NextFrame]_vars

SpecAnalyzer == Init /\ [][NextAnalyzer]_vars

SpecHistory == Init /\ [][NextHistory]_vars

SpecDB == Init /\ [][NextDB]_vars

(***************************************************************************)
(* Claims about the LookupBuilder and IndexedTableAccess                   *)
(***************************************************************************)
\* the builder the last GetLookup call was made on
lastLB == lbs[lkp.lb]

\* C1: for a key as long as the index has key columns and holding no NULL,
\* the lookup GetLookup returns has IsPointLookup equal to index.IsUnique(),
\* whatever the null-mask, for a fresh builder and for one obtained through
\* WithExpressions, on the first call and on every later call.
C1_PointLookupIsUnique ==
    (/\ lkp.called
     /\ Len(lkp.key) = cets(lkp.lookup.Index)
     /\ ~keyHasNil(lkp.key))
    => lkp.lookup.IsPointLookup = IsUnique(lkp.lookup.Index)

\* C2: the returned lookup is marked IsEmptyRange exactly when a position
\* that is not null-safe (mask bit false) received a NULL key value.
C2_EmptyRangeIffPlainNull ==
    lkp.called =>
        (lkp.lookup.IsEmptyRange <=>
            \E i \in 1..Len(lkp.key) :
                ~lastLB.matchesNullMask[i] /\ lkp.key[i] = NULL)

\* the table is index-addressable directly (no wrapper) or after unwrapping
\* a table wrapper
addressableForClaim(t) == (~t.wrapper /\ t.ia) \/ (t.wrapper /\ t.underIA)

\* the one range a lookup built from the zero key of builder lb holds
zeroKeyRange(lb) ==
    [i \in 1..cets(lb.index) |->
        IF i > lb.keyLen THEN AllRangeColumnExpr
        ELSE IF lb.matchesNullMask[i] THEN NotNullRangeColumnExpr
        ELSE ClosedRangeColumnExpr("0", "0")]

isConstructor(op) ==
    op \in {"NewIndexedAccessForResolvedTable", "NewStaticIndexedAccessForResolvedTable"}

\* C3: both constructors, on a table that is index-addressable directly or
\* after unwrapping a wrapper, fail with ErrInvalidLookupForIndexedTable
\* exactly when the lookup's index cannot support the lookup's ranges (for
\* NewIndexedAccessForResolvedTable: the ranges of the zero key) and
\* otherwise return a node over the given table; on any other table they
\* return an error and no node.
C3_ConstructorsCheckCanSupport ==
    isConstructor(itaRes.op) =>
        /\ (itaRes.op = "NewIndexedAccessForResolvedTable"
              /\ addressableForClaim(itaRes.table))
             => /\ itaRes.ranges = zeroKeyRange(lbs[itaRes.n])
                /\ itaRes.lookup.Index = lbs[itaRes.n].index
        /\ addressableForClaim(itaRes.table) =>
             /\ (itaRes.err = "ErrInvalidLookupForIndexedTable")
                   <=> ~CanSupport(itaRes.lookup.Index, itaRes.ranges)
             /\ (itaRes.err # "ErrInvalidLookupForIndexedTable") =>
                   /\ itaRes.err = "nil"
                   /\ itaRes.node.isNode
                   /\ itaRes.node.ResolvedTable = itaRes.table
             /\ (itaRes.err = "ErrInvalidLookupForIndexedTable") => ~itaRes.node.isNode
        /\ ~addressableForClaim(itaRes.table) =>
             /\ itaRes.err # "nil"
             /\ ~itaRes.node.isNode

\* C3 witnesses: a constructor refused a wrapped table's lookup, and a
\* constructor accepted one
C3_Witness ==
    /\ itaRes.op = "NewIndexedAccessForResolvedTable"
    /\ itaRes.table.wrapper
    /\ itaRes.err = "ErrInvalidLookupForIndexedTable"
    /\ itaRes.lookup.Index.support = "full"

\* C4: WithTable on an index-addressable table returns the node over the
\* new table whenever the index can support the lookup's ranges, and fails
\* with ErrInvalidLookupForIndexedTable only when it cannot.
C4_WithTableAcceptsSupportedLookup ==
    (itaRes.op = "WithTable" /\ addressableForClaim(itaRes.table)) =>
        /\ CanSupport(itaRes.lookup.Index, itaRes.ranges) =>
             /\ itaRes.err = "nil"
             /\ itaRes.node.isNode
             /\ itaRes.node.ResolvedTable = itaRes.table
        /\ (itaRes.err = "ErrInvalidLookupForIndexedTable") =>
             ~CanSupport(itaRes.lookup.Index, itaRes.ranges)

(***************************************************************************)
(* Claims about ColumnDefaultValue                                         *)
(***************************************************************************)
isMethod(op) ==
    op \notin {"none", "NewColumnDefaultValue", "NewUnresolvedColumnDefaultValue",
               "UnresolvedColumnDefault.WithChildren"}

\* C5: every method of ColumnDefaultValue called on the absent (nil) default
\* returns normally, without an error and without a crash.
C5_AbsentMethodsTotal ==
    (isMethod(cdvRes.op) /\ cdvRes.recv.absent) => cdvRes.r.out = "ok"

\* C6: for a non-absent default whose mayReturnNil flag is false, Eval never
\* returns NULL with no error, and whenever the inner expression evaluates
\* to NULL the result is ErrColumnDefaultReturnedNull.
C6_NoNullWithoutError ==
    (cdvRes.op = "Eval" /\ ~cdvRes.recv.absent /\ ~cdvRes.recv.ReturnNil) =>
        /\ ~(cdvRes.r.out = "ok" /\ cdvRes.r.val = NULL)
        /\ (/\ ~cdvRes.recv.Expression.placeholder
            /\ ExprEval(cdvRes.recv.Expression, cdvRes.row) = NULL)
             => (cdvRes.r.out = "err" /\ cdvRes.r.err = "ErrColumnDefaultReturnedNull")

\* C6 witness: Eval of a default with an output type and mayReturnNil false
\* whose inner expression gave NULL on a row
C6_Witness ==
    /\ cdvRes.op = "Eval"
    /\ ~cdvRes.recv.absent
    /\ ~cdvRes.recv.ReturnNil
    /\ cdvRes.recv.OutType = "int"
    /\ cdvRes.row = "row"
    /\ ExprEval(cdvRes.recv.Expression, "row") = NULL
    /\ cdvRes.r.err = "ErrColumnDefaultReturnedNull"

arityOutcome(n, k, out, err) ==
    IF n # k THEN out = "err" /\ err = "ErrInvalidChildrenNumber" ELSE out = "ok"

\* C8: for ColumnDefaultValue (the absent default included),
\* UnresolvedColumnDefault and IndexedTableAccess, WithChildren fails with
\* ErrInvalidChildrenNumber when given a number of children different from
\* the number Children() returns, and succeeds when given that number.
C8_WithChildrenArity ==
    /\ cdvRes.op = "WithChildren" =>
         arityOutcome(cdvRes.n, CDVChildren(cdvRes.recv), cdvRes.r.out, cdvRes.r.err)
    /\ cdvRes.op = "UnresolvedColumnDefault.WithChildren" =>
         arityOutcome(cdvRes.n, UnresolvedChildren, cdvRes.r.out, cdvRes.r.err)
    /\ itaRes.op = "WithChildren" =>
         arityOutcome(itaRes.n, ITAChildren,
                      IF itaRes.err = "nil" THEN "ok" ELSE "err", itaRes.err)

(***************************************************************************)
(* Claims about the FROM clause                                            *)
(***************************************************************************)
\* node is the plan node of the single data source te: a resolved table
\* (under a table alias when te has an alias), a subquery alias or a JSON
\* table, of te's name
isLeafOf(node, te) ==
    CASE te.kind = "AliasedTableExpr" /\ te.expr = "TableName" ->
            IF te.as = ""
            THEN node.op = "ResolvedTable" /\ node.name = te.name
            ELSE /\ node.op = "TableAlias"
                 /\ node.name = ToLower(te.as)
                 /\ node.kids[1].op = "ResolvedTable"
                 /\ node.kids[1].name = te.name
      [] te.kind = "AliasedTableExpr" /\ te.expr = "Subquery" ->
            node.op = "SubqueryAlias" /\ node.name = te.as
      [] te.kind = "JSONTableExpr" ->
            node.op = "JSONTable" /\ node.name = te.alias
      [] OTHER -> FALSE

\* node is a left-deep tree of n-1 cross joins without condition whose
\* leaves are te[1] .. te[n] in this order
RECURSIVE isLeftDeepCross(_, _, _)
isLeftDeepCross(node, te, n) ==
    IF n = 1 THEN isLeafOf(node, te[1])
    ELSE /\ node.op \in {"CrossJoin", "LateralCrossJoin"}
         /\ node.filter = NoFilter
         /\ Len(node.kids) = 2
         /\ isLeafOf(node.kids[2], te[n])
         /\ isLeftDeepCross(node.kids[1], te, n - 1)

\* C9: buildFrom over no table expression gives the dual table; over one
\* it gives what buildDataSource gives for that entry; over n >= 2 entries
\* that can be built together it gives a left-deep tree of n-1 cross joins
\* (lateral cross joins where the right entry is a LATERAL derived table),
\* none with a condition, whose leaves are the entries in input order.
C9_BuildFromLeftDeep ==
    pb.op = "buildFrom" =>
        /\ Len(pb.te) = 0 =>
              /\ ~Failed(pb.res)
              /\ pb.res.node = NewResolvedDualTable
        /\ Len(pb.te) = 1 =>
              pb.res = buildDataSource(pb.inScope, pb.te[1])
        /\ (Len(pb.te) >= 2 /\ ~Failed(pb.res)) =>
              isLeftDeepCross(pb.res.node, pb.te, Len(pb.te))

\* a FROM list of three entries, the last one lateral, built into a
\* lateral cross join over a cross join
C9_Witness ==
    /\ pb.op = "buildFrom"
    /\ Len(pb.te) = 3
    /\ ~Failed(pb.res)
    /\ pb.res.node.op = "LateralCrossJoin"
    /\ pb.res.node.kids[1].op = "CrossJoin"

\* C10: when both sides of a join were built, buildJoin fails with
\* ErrDuplicateAliasOrTable, and returns no node, if the two scopes have a
\* table name in common, whatever the join keyword (NATURAL included); it
\* does not fail with that error if they have none.
C10_JoinRejectsDuplicateNames ==
    (pb.op = "buildJoin" /\ ~Failed(pb.left) /\ ~Failed(pb.right)) =>
        IF tables(pb.left) \cap tables(pb.right) # {}
        THEN /\ pb.res.err = "ErrDuplicateAliasOrTable"
             /\ pb.res.node = NilNode
        ELSE pb.res.err # "ErrDuplicateAliasOrTable"

\* a NATURAL JOIN of two sides named t1, refused
C10_Witness ==
    /\ pb.op = "buildJoin"
    /\ pb.te[1].Join = NaturalJoinStr
    /\ ~Failed(pb.left) /\ ~Failed(pb.right)
    /\ "t1" \in tables(pb.left) \cap tables(pb.right)
    /\ pb.res.err = "ErrDuplicateAliasOrTable"

\* the right side of the join te is a LATERAL aliased table or a JSON_TABLE
rightIsLateral(te) ==
    \/ te.RightExpr.kind = "JSONTableExpr"
    \/ te.RightExpr.kind = "AliasedTableExpr" /\ te.RightExpr.lateral

\* C11: once the left side of a join is built, the right side is built in
\* the left side's scope exactly when the right side is lateral (a LATERAL
\* aliased table or a JSON_TABLE) and the keyword is not RIGHT JOIN;
\* otherwise it is built in the enclosing scope, sees the tables the
\* enclosing scope sees, and a right side that refers to a table only the
\* left side defines cannot be built.
C11_LateralRightSeesLeft ==
    (pb.op = "buildJoin" /\ ~Failed(pb.left)) =>
        IF rightIsLateral(pb.te[1]) /\ pb.te[1].Join # RightJoinStr
        THEN pb.rightIn = pb.left
        ELSE /\ pb.rightIn = pb.inScope
             /\ visible(pb.rightIn) = visible(pb.inScope)
             /\ \A t \in tables(pb.left) \ visible(pb.inScope) :
                   (/\ pb.te[1].RightExpr.kind = "AliasedTableExpr"
                    /\ pb.te[1].RightExpr.expr = "Subquery"
                    /\ t \in pb.te[1].RightExpr.refs) => Failed(pb.right)

\* a LEFT JOIN whose right side is a LATERAL derived table referring to the
\* left table t1, built in the left scope
C11_Witness ==
    /\ pb.op = "buildJoin"
    /\ pb.te[1].Join = LeftJoinStr
    /\ pb.te[1].RightExpr.kind = "AliasedTableExpr"
    /\ pb.te[1].RightExpr.lateral
    /\ "t1" \in pb.te[1].RightExpr.refs
    /\ ~Failed(pb.left)
    /\ pb.rightIn = pb.left
    /\ "t1" \in visible(pb.rightIn) \ visible(pb.inScope)
    /\ ~Failed(pb.right)

\* C12: a join that is not NATURAL and whose condition is absent or the
\* literal TRUE is built, when both sides can be joined, as a join without
\* condition: a lateral cross join when the right side is lateral (a
\* LATERAL aliased table or a JSON_TABLE), a plain cross join otherwise.
C12_CrossJoinLateralByRightSide ==
    (/\ pb.op = "buildJoin"
     /\ pb.te[1].Join # NaturalJoinStr
     /\ pb.te[1].On \in {"nil", "true"}
     /\ ~Failed(pb.res)) =>
        /\ pb.res.node.filter = NoFilter
        /\ pb.res.node.kids = <<pb.left.node, pb.right.node>>
        /\ pb.res.node.op = IF rightIsLateral(pb.te[1])
                            THEN "LateralCrossJoin"
                            ELSE "CrossJoin"

\* the join type a join keyword stands for, by whether the right side is
\* lateral (FULL OUTER has no lateral form)
keywordJoinType(join, lateral) ==
    CASE join = JoinStr ->
            IF lateral THEN "LateralInnerJoin" ELSE "InnerJoin"
      [] join = LeftJoinStr ->
            IF lateral THEN "LateralLeftJoin" ELSE "LeftOuterJoin"
      [] join = RightJoinStr ->
            IF lateral THEN "LateralRightJoin" ELSE "RightOuterJoin"
      [] join = FullOuterJoinStr -> "FullOuterJoin"
      [] OTHER -> "none"

\* C13: a join built with a condition (for LEFT, RIGHT and FULL OUTER JOIN
\* the condition may be the literal TRUE, as in
\* t1 LEFT JOIN LATERAL (...) s ON TRUE) has the join type of its keyword
\* (JOIN, LEFT, RIGHT, FULL OUTER) crossed with whether the right side is
\* lateral, and a lateral right side of a join other than RIGHT JOIN is
\* built in the left scope.
C13_JoinTypeFromKeyword ==
    (/\ pb.op = "buildJoin"
     /\ pb.te[1].Join \in {JoinStr, LeftJoinStr, RightJoinStr, FullOuterJoinStr}
     /\ \/ pb.te[1].On = "cond"
        \/ pb.te[1].On = "true" /\ pb.te[1].Join # JoinStr
     /\ ~Failed(pb.res)) =>
        /\ pb.res.node.op =
              keywordJoinType(pb.te[1].Join, rightIsLateral(pb.te[1]))
        /\ (rightIsLateral(pb.te[1]) /\ pb.te[1].Join # RightJoinStr)
              => pb.rightIn = pb.left

\* the column names of a scope
colNames(s) == {s.cols[i].col : i \in DOMAIN s.cols}
\* the first column of scope s that is named as column c
sameNamed(s, c) ==
    s.cols[CHOOSE j \in DOMAIN s.cols :
              /\ s.cols[j].col = c.col
              /\ \A k \in DOMAIN s.cols : k < j => s.cols[k].col # c.col]

\* C14: a NATURAL JOIN of two sides that share no column name is built as
\* the plain cross join of the two sides, without any condition, whether or
\* not the right side has columns.
C14_NaturalJoinNoSharedIsCross ==
    (/\ pb.op = "buildJoin"
     /\ pb.te[1].Join = NaturalJoinStr
     /\ ~Failed(pb.res)
     /\ colNames(pb.left) \cap colNames(pb.right) = {}) =>
        pb.res.node = NewCrossJoin(pb.left.node, pb.right.node)

\* the equalities and the output columns a NATURAL JOIN of the scopes l and
\* r stands for: one equality per right column that has a same-named left
\* column; every left column, then the right columns that have none
naturalEqs(l, r) ==
    LET hasLeft(c) == c.col \in colNames(l)
        shared == SelectSeq(r.cols, hasLeft)
    IN  [i \in DOMAIN shared |->
            [l |-> sameNamed(l, shared[i]), r |-> shared[i]]]
naturalProjection(l, r) ==
    LET hasNoLeft(c) == c.col \notin colNames(l)
    IN  l.cols \o SelectSeq(r.cols, hasNoLeft)

\* C15: a NATURAL JOIN of two sides that share a column name is built as a
\* projection over an inner join of the two sides; the join condition is
\* the conjunction of one equality left.c = right.c per right column c that
\* has a same-named left column and nothing else; the projected columns are
\* the left columns in order, then the right columns without a same-named
\* left column.
C15_NaturalJoinProjectsOverInnerJoin ==
    (/\ pb.op = "buildJoin"
     /\ pb.te[1].Join = NaturalJoinStr
     /\ ~Failed(pb.res)
     /\ colNames(pb.left) \cap colNames(pb.right) # {}) =>
        /\ pb.res.cols = naturalProjection(pb.left, pb.right)
        /\ pb.res.node.op = "Project"
        /\ Len(pb.res.node.kids) = 1
        /\ pb.res.node.kids[1] =
              NewJoin(pb.left.node, pb.right.node, "InnerJoin",
                      Filter("and", naturalEqs(pb.left, pb.right)))

(***************************************************************************)
(* Claims about buildUnion                                                 *)
(***************************************************************************)
\* the last call was buildUnion, both operands were built and the ORDER BY
\* names columns of the left operand
unionBuilt ==
    /\ pb.op = "buildUnion"
    /\ ~Failed(pb.left) /\ ~Failed(pb.right)
    /\ analyzeOrderBy(pb.left, pb.te[1].OrderBy).err = NoErr
\* the sort fields of the outer statement
outerSortFields ==
    [i \in DOMAIN pb.te[1].OrderBy |-> SortField(pb.te[1].OrderBy[i])]
\* what the inner (left) union and the outer statement set
innerUnion == pb.left.node
sortConflict ==
    Len(unionSortFields(innerUnion)) > 0 /\ Len(pb.te[1].OrderBy) > 0
limitConflict == unionLimit(innerUnion) # "nil" /\ pb.te[1].Limit # "nil"
offsetConflict == unionOffset(innerUnion) # "nil" /\ pb.te[1].Offset # "nil"

\* C16: when the left operand of a union is itself a union, the build fails
\* with ErrConflictingExternalQuery if the inner and the outer union both
\* set the sort fields, or both the limit, or both the offset; otherwise
\* the inner union is rebuilt without sort fields, limit and offset, and
\* the outer node carries, for each of the three, the inner union's value
\* where the inner union set one and the outer statement's otherwise.
C16_UnionHoistsInnerClauses ==
    (unionBuilt /\ innerUnion.op = "Union") =>
        IF sortConflict \/ limitConflict \/ offsetConflict
        THEN pb.res.err = "ErrConflictingExternalQuery"
        ELSE /\ ~Failed(pb.res)
             /\ pb.res.node.kids[1] =
                   NewUnion(innerUnion.kids[1], innerUnion.kids[2],
                            unionDistinct(innerUnion), "nil", "nil", <<>>)
             /\ unionSortFields(pb.res.node) =
                   IF Len(unionSortFields(innerUnion)) > 0
                   THEN unionSortFields(innerUnion) ELSE outerSortFields
             /\ unionLimit(pb.res.node) =
                   IF unionLimit(innerUnion) # "nil"
                   THEN unionLimit(innerUnion) ELSE pb.te[1].Limit
             /\ unionOffset(pb.res.node) =
                   IF unionOffset(innerUnion) # "nil"
                   THEN unionOffset(innerUnion) ELSE pb.te[1].Offset

tableFuncBuilt ==
    /\ pb.op = "buildDataSource"
    /\ pb.te[1].kind = "TableFuncExpr"
    /\ pb.te[1].name \in DOMAIN TableFunctions
    /\ \A i \in DOMAIN pb.te[1].exprs :
          tableFuncArgErr(pb.te[1].exprs[i]) = NoErr

\* the node under the table alias is an instance of the table function
isInstantiated(s) ==
    /\ ~Failed(s)
    /\ s.node.op = "TableAlias"
    /\ s.node.kids[1].op = "TableFunction"
    /\ s.node.kids[1].attr[1] = "instantiated"

\* C18: when an argument of the table function is a bind variable, the
\* build succeeds without instantiating the function, and the node carries
\* the unresolved arguments; when no argument is a bind variable, the
\* function is instantiated during the build.
C18_BindVarDefersTableFunction ==
    tableFuncBuilt =>
        IF \E i \in DOMAIN pb.te[1].exprs : pb.te[1].exprs[i] = "bindvar"
        THEN /\ ~Failed(pb.res)
             /\ ~isInstantiated(pb.res)
        ELSE Failed(pb.res) \/ isInstantiated(pb.res)

\* a table scan of a table the catalog has, whose AS OF expression, if
\* any, builds and evaluates
tablescanBuilt ==
    /\ pb.op = "buildTablescan"
    /\ ToLower(IF pb.te[1].db = "" THEN CurrentDatabase ELSE pb.te[1].db)
          \in Databases
    /\ \E t \in DOMAIN Catalog : ToLower(t) = ToLower(pb.te[1].name)
    /\ pb.te[1].asof.kind # "evalError"

\* the schema of the table a table scan names
scannedSchema ==
    Catalog[CHOOSE t \in DOMAIN Catalog : ToLower(t) = ToLower(pb.te[1].name)]

\* a resolved table the catalog lookup via produced for the marker asOf
isResolvedTable(n, via, asOf) ==
    /\ n.op = "ResolvedTable"
    /\ n.attr[2] = asOf
    /\ n.attr[3] = via
    /\ n.attr[4] = asOf

\* C19: a table scan whose AS OF expression contains a bind variable
\* yields DeferredAsOfTable(resolvedTable, asOfExpr) without evaluating the
\* expression; a bare identifier is evaluated as the string literal of its
\* text, any other expression is evaluated, and the value is handed to the
\* catalog's TableAsOf; without AS OF the catalog's Table is used and the
\* node is a plain resolved table.  The scope gets one column per schema
\* column, in schema order, with database, table and column names in lower
\* case.
C19_TablescanAsOf ==
    tablescanBuilt =>
        /\ ~Failed(pb.res)
        /\ CASE pb.te[1].asof.kind \in {"bindvar", "bindvarInside"} ->
                  /\ pb.res.node.op = "DeferredAsOfTable"
                  /\ pb.res.node.attr = <<pb.te[1].asof.kind>>
                  /\ pb.res.node.kids[1].op = "ResolvedTable"
                  /\ pb.res.node.kids[1].attr[2] = "nil"
             [] pb.te[1].asof.kind = "ident" ->
                  isResolvedTable(pb.res.node, "TableAsOf", "identifier text")
             [] pb.te[1].asof.kind = "nil" ->
                  isResolvedTable(pb.res.node, "Table", "nil")
             [] OTHER ->
                  isResolvedTable(pb.res.node, "TableAsOf", "value")
        /\ Len(pb.res.cols) = Len(scannedSchema)
        /\ \A i \in DOMAIN scannedSchema :
              /\ pb.res.cols[i].db = "mydb"
              /\ pb.res.cols[i].table \in {"t1", "orders"}
              /\ pb.res.cols[i].table = ToLower(pb.te[1].name)
              /\ pb.res.cols[i].col = ToLower(scannedSchema[i])
              /\ pb.res.cols[i].col \in {"a", "b", "id", "total"}

\* a scan of Orders in MYDB with a bind variable inside its AS OF
\* expression: a deferred node and the columns orders.id, orders.total
C19_Witness ==
    /\ tablescanBuilt
    /\ pb.te[1].db = "MYDB"
    /\ pb.te[1].name = "Orders"
    /\ pb.te[1].asof.kind = "bindvarInside"
    /\ pb.res.node.op = "DeferredAsOfTable"
    /\ Len(pb.res.cols) = 2
    /\ pb.res.cols[2].col = "total"
    /\ pb.res.cols[2].table = "orders"
    /\ pb.res.cols[2].db = "mydb"

(***************************************************************************)
(* Claims about resolveOrderbyLiterals                                     *)
(***************************************************************************)
\* the rule ran once on a Sort all of whose sort fields are integer
\* literals
literalSortResolved ==
    /\ ana.op = "resolveOrderbyLiterals"
    /\ ana.runs = 1
    /\ Len(ana.node.SortFields) > 0
    /\ \A i \in DOMAIN ana.node.SortFields :
          ana.node.SortFields[i].Column.kind = "Literal"

\* C20: resolveOrderbyLiterals on a Sort whose sort fields are integer
\* literals, over a child with n schema columns: when every literal k has
\* 1 <= k <= n, the i-th sort field of the result is the unresolved
\* qualified column (source table, name) of the k-th child column, for the
\* literal k of the i-th sort field; when a literal is 0 or greater than n
\* the rule fails with ErrOrderByColumnIndex.
C20_OrderByLiteralsResolved ==
    literalSortResolved =>
        LET fields == ana.node.SortFields
            schema == ana.node.Child.schema
        IN  IF \A i \in DOMAIN fields :
                  /\ 1 <= fields[i].Column.value
                  /\ fields[i].Column.value <= Len(schema)
            THEN /\ ana.res.err = NoErr
                 /\ ana.res.node.op = "Sort"
                 /\ ana.res.node.Child = ana.node.Child
                 /\ Len(ana.res.node.SortFields) = Len(fields)
                 /\ \A i \in DOMAIN fields :
                       /\ ana.res.node.SortFields[i].Column.kind =
                             "UnresolvedColumn"
                       /\ ana.res.node.SortFields[i].Column.table =
                             schema[fields[i].Column.value].Source
                       /\ ana.res.node.SortFields[i].Column.name =
                             schema[fields[i].Column.value].Name
            ELSE ana.res.err = "ErrOrderByColumnIndex"

\* ORDER BY 2, 1 over t(a, b) became ORDER BY t.b, t.a
C20_Witness ==
    /\ literalSortResolved
    /\ ana.node.Child = SortChild("t", <<"a", "b">>)
    /\ Len(ana.node.SortFields) = 2
    /\ ana.node.SortFields[1].Column = NewLiteral(2)
    /\ ana.node.SortFields[2].Column = NewLiteral(1)
    /\ ana.res.err = NoErr
    /\ ana.res.node.SortFields[1].Column =
          NewUnresolvedQualifiedColumn("t", "b")
    /\ ana.res.node.SortFields[1].Column2 =
          NewUnresolvedQualifiedColumn("t", "b")
    /\ ana.res.node.SortFields[2].Column =
          NewUnresolvedQualifiedColumn("t", "a")

(***************************************************************************)
(* Claims about pushdownSort                                               *)
(***************************************************************************)
\* the names of the columns of the table below the child of the Sort
sourceColumns ==
    {ana.node.Child.Child.schema[i].Name :
        i \in DOMAIN ana.node.Child.Child.schema}

\* the names the child of the Sort outputs
outputNames ==
    {ana.node.Child.exprs[i].name : i \in DOMAIN ana.node.Child.exprs}

\* C21: pushdownSort on a Sort directly above a Project, GroupBy or Window
\* leaves the tree as it is when every sort column names an output of that
\* child; when no sort column is an output of the child and each names a
\* column of the child's source, the result is the same child, with its
\* expressions unchanged, over the Sort, with its sort fields unchanged,
\* over the original source.
C21_PushdownSortSwaps ==
    ana.op = "pushdownSort" =>
        LET fields == ana.node.SortFields
            child == ana.node.Child
        IN  /\ (\A i \in DOMAIN fields :
                    fields[i].Column.name \in outputNames) =>
                  /\ ana.res.err = NoErr
                  /\ ana.res.node = ana.node
            /\ (\A i \in DOMAIN fields :
                    /\ fields[i].Column.name \notin outputNames
                    /\ fields[i].Column.name \in sourceColumns) =>
                  /\ ana.res.err = NoErr
                  /\ ana.res.node.op = child.op
                  /\ ana.res.node.exprs = child.exprs
                  /\ ana.res.node.grouping = child.grouping
                  /\ ana.res.node.Child.op = "Sort"
                  /\ ana.res.node.Child.SortFields = fields
                  /\ ana.res.node.Child.Child = child.Child

\* ORDER BY a over GroupBy[a AS x] became GroupBy[a AS x] over Sort[a]
C21_Witness ==
    /\ ana.op = "pushdownSort"
    /\ ana.node.Child.op = "GroupBy"
    /\ ana.node.Child.exprs =
          <<NewAlias("x", NewGetFieldWithTable(0, "foo", "a"))>>
    /\ Len(ana.node.SortFields) = 1
    /\ ana.node.SortFields[1].Column = NewUnresolvedColumn("a")
    /\ ana.res.node.op = "GroupBy"
    /\ ana.res.node.Child = NewSort(ana.node.SortFields, FooTable)

(***************************************************************************)
(* Claims about the in-memory database                                     *)
(***************************************************************************)
\* the AddTableAsOf calls so far for the name, compared without regard to
\* case
addsFor(name) ==
    {i \in DOMAIN mlog :
        /\ mlog[i].asOf # "nil"
        /\ ToLower(mlog[i].name) = ToLower(name)}

\* the table of the latest call among the calls is
latestOf(is) == mlog[CHOOSE i \in is : \A j \in is : j <= i].t

\* C22: on a HistoryDatabase, GetTableInsensitiveAsOf(name, rev) returns
\* the table most recently added for the name, compared ignoring case, and
\* the revision; with revisions of the name but not this one it fails with
\* ErrTableNotFound; without revisions of the name it returns what
\* GetTableInsensitive returns; and GetTableInsensitive of a name returns
\* the table of the most recent AddTableAsOf for the name.
C22_HistoryLookups ==
    /\ mres.op = "GetTableInsensitiveAsOf" =>
          LET name == mres.args[1]
              atRev == {i \in addsFor(name) : mlog[i].asOf = mres.args[2]}
          IN  IF atRev # {}
              THEN mres.err = NoErr /\ mres.out = latestOf(atRev)
              ELSE IF addsFor(name) # {}
              THEN mres.err = "ErrTableNotFound"
              ELSE /\ mres.err = NoErr
                   /\ mres.out \in
                         GetTableInsensitiveOutcomes(name, mdb.tables)
    /\ (mres.op = "GetTableInsensitive" /\ addsFor(mres.args[1]) # {}) =>
          /\ mres.err = NoErr
          /\ mres.out = latestOf(addsFor(mres.args[1]))

\* C28: after any sequence of SaveEvent, DropEvent and UpdateEvent calls
\* from a database without events, no two stored events have names that
\* are equal ignoring case.
C28_EventNamesUnique ==
    \A i, j \in DOMAIN mdb.events :
        ToLower(mdb.events[i].Name) = ToLower(mdb.events[j].Name) => i = j

\* C29: a mutating operation that returns an error leaves the tables,
\* events, stored procedures, triggers and views of the database as they
\* were before the call.
C29_FailedCallChangesNothing ==
    (mres.op # "none" /\ mres.err # NoErr) =>
        /\ mdb.tables = mres.before.tables
        /\ mdb.events = mres.before.events
        /\ mdb.storedProcedures = mres.before.storedProcedures
        /\ mdb.triggers = mres.before.triggers
        /\ mdb.views = mres.before.views

(***************************************************************************)
(* Claims about reused and derived LookupBuilders                          *)
(***************************************************************************)
\* the range column the lookup for key k must hold at position i
expectedColumn(mask, k, i) ==
    IF i > Len(k) THEN AllRangeColumnExpr
    ELSE IF mask[i]
         THEN IF k[i] = NULL THEN NullRangeColumnExpr ELSE NotNullRangeColumnExpr
         ELSE ClosedRangeColumnExpr(k[i], k[i])

\* the lookup the builder of the last call returns for key k on its first
\* call, before it has a range slice
firstCallLookup(k) == GetLookup([lastLB EXCEPT !.rang = 0], <<>>, k)

\* C23: after any sequence of GetLookup calls on a LookupBuilder, the lookup
\* returned for the latest key k holds one range as long as the index has
\* key columns: the null range where the mask is set and k[i] is NULL, the
\* not-null range where the mask is set and k[i] is not NULL, the closed
\* range [k[i], k[i]] where the mask is not set, the all range from len(k)
\* on; index, ranges and flags are those of the builder's first call for k,
\* whatever the earlier keys were.
C23_ReusedBuilderRanges ==
    lkp.called =>
        LET r == RangesOf(lkp.lookup, heap)
            f == firstCallLookup(lkp.key)
        IN /\ lkp.lookup.Ranges # 0
           /\ Len(r) = cets(lkp.lookup.Index)
           /\ Len(lkp.key) <= Len(r)
           /\ \A i \in 1..Len(r) :
                 r[i] = expectedColumn(lastLB.matchesNullMask, lkp.key, i)
           /\ lkp.lookup.Index = f.lookup.Index
           /\ r = RangesOf(f.lookup, f.heap)
           /\ lkp.lookup.IsPointLookup = f.lookup.IsPointLookup
           /\ lkp.lookup.IsEmptyRange = f.lookup.IsEmptyRange

\* C23 witness: the only builder there is was called again, its range slice
\* already built, with a key shorter than the index, a NULL under a set mask
\* bit
C23_Witness ==
    /\ Len(lbs) = 1
    /\ lkp.called
    /\ lkp.reused
    /\ Len(lkp.key) < cets(lkp.lookup.Index)
    /\ \E i \in 1..Len(lkp.key) : lastLB.matchesNullMask[i] /\ lkp.key[i] = NULL
    /\ RangesOf(lkp.lookup, heap)[1] = NullRangeColumnExpr

\* C26: distinct LookupBuilder instances share no scratch state, a builder
\* WithExpressions made from one that had already built a lookup included:
\* a GetLookup call on one builder never changes the ranges of a lookup
\* another builder produced.
C26_BuildersShareNoRanges ==
    [][(held.called /\ lkp'.called /\ lkp'.lb # held.lb)
          => RangesOf(held.lookup, heap') = RangesOf(held.lookup, heap)]_vars

\* the held lookup came from the builder NewLookupBuilder made, the last
\* call was made with the same key on a builder WithExpressions made of it
sameKeyOnRewritten ==
    /\ held.called
    /\ lkp.called
    /\ held.lb = 1
    /\ lkp.lb # 1
    /\ lkp.key = held.key

\* C27: a node rewritten with its own key expressions behaves as the node
\* did: WithExpressions succeeds and, for the same row (so the same key),
\* GetLookup on the result returns the index, ranges, IsPointLookup and
\* IsEmptyRange that GetLookup on the original returned.
C27_RewriteWithOwnExpressions ==
    /\ \A b \in 1..Len(lbs) : WithExpressionsErr(lbs[b], lbs[b].keyLen) = "nil"
    /\ sameKeyOnRewritten =>
         /\ lkp.lookup.Index = held.lookup.Index
         /\ RangesOf(lkp.lookup, heap) = held.ranges
         /\ lkp.lookup.IsPointLookup = held.lookup.IsPointLookup
         /\ lkp.lookup.IsEmptyRange = held.lookup.IsEmptyRange

(***************************************************************************)
(* Claims about ColumnDefaultValue.Eval                                    *)
(***************************************************************************)
\* the last call was Eval on a default that is there and whose inner
\* expression can be evaluated
evalOfDefault ==
    /\ cdvRes.op = "Eval"
    /\ ~cdvRes.recv.absent
    /\ ~cdvRes.recv.Expression.placeholder

\* C24: Eval on a non-absent default decides in this order: the error of
\* the inner expression is returned as it is; else a NULL value with
\* ReturnNil false gives ErrColumnDefaultReturnedNull; else, with an output
\* type, a conversion error gives ErrIncompatibleDefaultType and a value out
\* of range gives ErrValueOutOfRange; else the converted value is returned
\* without error; without an output type the inner value is returned as is.
C24_EvalOutcomeOrder ==
    evalOfDefault =>
        LET e == cdvRes.recv
            val == ExprEval(e.Expression, cdvRes.row)
            c == Convert(e.OutType, val)
            r == cdvRes.r
        IN /\ (val = "err") => r = Err("inner")
           /\ (val = NULL /\ ~e.ReturnNil) => r = Err("ErrColumnDefaultReturnedNull")
           /\ (val # "err" /\ ~(val = NULL /\ ~e.ReturnNil)) =>
                /\ (e.OutType # NoType /\ c.err) => r = Err("ErrIncompatibleDefaultType")
                /\ (e.OutType # NoType /\ ~c.err /\ ~c.inRange) =>
                       r = Err("ErrValueOutOfRange")
                /\ (e.OutType # NoType /\ ~c.err /\ c.inRange) => r = Ret(c.val)
                /\ (e.OutType = NoType) => r = Ret(val)

\* C24 witnesses: a value the output type cannot convert was refused as
\* incompatible
C24_Witness ==
    /\ evalOfDefault
    /\ cdvRes.recv.OutType # NoType
    /\ ExprEval(cdvRes.recv.Expression, cdvRes.row) = "bad"
    /\ cdvRes.r = Err("ErrIncompatibleDefaultType")

(***************************************************************************)
(* Claims about analyzer.withTable                                         *)
(***************************************************************************)
isTableNode(n) == n.kind \in {"ResolvedTable", "IndexedTableAccess"}

\* the positions of the ResolvedTable and IndexedTableAccess nodes of a plan
tableNodes(nodes) == {i \in 1..Len(nodes) : isTableNode(nodes[i])}

\* node n over the table t
overTable(n, t) ==
    IF n.kind = "ResolvedTable" THEN ResolvedTableNode(t)
    ELSE IF n.kind = "IndexedTableAccess"
    THEN IndexedTableAccessNode([n.ita EXCEPT !.ResolvedTable = t])
    ELSE n

\* C25: withTable(node, table) on a tree with exactly one ResolvedTable or
\* IndexedTableAccess returns the tree with that node's table replaced by
\* the given one, and NewTree; on a tree with more than one it fails with
\* ErrInAnalysis; on a tree with none it returns the same tree and SameTree.
C25_WithTableReplacesTheOneTable ==
    wt.called =>
        LET c == Cardinality(tableNodes(wt.tree))
        IN /\ (c = 1) =>
                /\ wt.err = "nil"
                /\ wt.identity = "NewTree"
                /\ wt.node = [i \in 1..Len(wt.tree) |-> overTable(wt.tree[i], wt.table)]
           /\ (c > 1) => wt.err = "ErrInAnalysis"
           /\ (c = 0) =>
                /\ wt.err = "nil"
                /\ wt.identity = "SameTree"
                /\ wt.node = wt.tree

(***************************************************************************)
(* Claims about the window-frame accessors                                 *)
(***************************************************************************)
frameExprAccessors ==
    {"getFrameStartNPreceding", "getFrameEndNPreceding",
     "getFrameStartNFollowing", "getFrameEndNFollowing"}

frameBoolAccessors ==
    {"getFrameStartCurrentRow", "getFrameEndCurrentRow",
     "getFrameUnboundedPreceding", "getFrameUnboundedFollowing"}

\* the frame has a start bound and no end bound
startOnly(f) == ~f.isNil /\ ~f.Start.isNil /\ f.End.isNil

\* C30: every window-frame accessor returns, whatever the frame: for the
\* nil frame the expression accessors return nil and the boolean accessors
\* false; for a frame with a start bound and no end bound
\* getFrameEndCurrentRow is true, the end-bound expression accessors return
\* nil, and the unbounded accessors tell of the start bound alone.
C30_FrameAccessorsTotal ==
    (wf.op # "none") =>
        /\ ~wf.r.panic
        /\ wf.frame.isNil =>
             /\ (wf.op \in frameExprAccessors) => wf.r = FrameNilRet
             /\ (wf.op \in frameBoolAccessors) => wf.r = FrameBoolRet(FALSE)
        /\ startOnly(wf.frame) =>
             /\ (wf.op = "getFrameEndCurrentRow") => wf.r = FrameBoolRet(TRUE)
             /\ (wf.op \in {"getFrameEndNPreceding", "getFrameEndNFollowing"})
                   => wf.r = FrameNilRet
             /\ (wf.op = "getFrameUnboundedPreceding")
                   => wf.r = FrameBoolRet(wf.frame.Start.Type = "UnboundedPreceding")
             /\ (wf.op = "getFrameUnboundedFollowing")
                   => wf.r = FrameBoolRet(wf.frame.Start.Type = "UnboundedFollowing")

====
